---- MODULE Spec2Model ----
(***************************************************************************)
(* Model of the browserpass background script: the fill dispatcher        *)
(* (fillFields / dispatchFill / dispatchFocusOrSubmit / injectScript),    *)
(* the persisted settings it reads and writes, and the message handlers   *)
(* that touch the same storage.                                           *)
(*                                                                         *)
(* JavaScript values are modelled as follows:                              *)
(*   undefined / true / false   the strings "undefined", "true", "false"  *)
(*   an array                   a sequence                                 *)
(*   an object used as a map    a function, absent keys map to "undefined" *)
(*   a storage key              [present, value]                           *)
(***************************************************************************)
EXTENDS Integers, Sequences, FiniteSets, TLC

\* ------------------------------------------------------------------ bounds
\* number of frames of the tab that executeScript reaches with allFrames
MaxFrames == 2

\* the clock is read at most MaxDrift ms after a multiple of the ignore interval,
\* and at most MaxIntervals intervals after the epoch
MaxDrift == 2
MaxIntervals == 2

\* number of authentication challenges that arrive
MaxChallenges == 2

\* --------------------------------------------------------------- constants
\* saveRecent: var ignoreInterval = 60000
IgnoreInterval == 60000

Undefined == "undefined"
Origins == {"o1", "o2"}
ForeignOrigins == {"f1"}
Logins == {"l1"}
Tri == {"undefined", "true", "false"}

VARIABLES
    storage,            \* chrome.storage.local
    now,                \* Date.now()
    pc,                 \* position of the fill flow
    settings,           \* the settings object of the fill flow (getFullSettings)
    login,              \* message.login of the fill flow
    fields,             \* fillFields: fields
    injectedAllFrames,  \* fillFields: injectedAllFrames
    allFrames,          \* fillFields: allFrames
    allowForeign,       \* fillFields: allowForeign
    allowNoSecret,      \* fillFields: allowNoSecret
    filledFields,       \* fillFields: filledFields
    injections,         \* log: injectScript calls of the run, <<allFrames, ok>>
    attempts,           \* log: fill instructions of the run
    asked,              \* log: the confirmation decisions in the last response
    focus,              \* log: focus-or-submit instructions of the run
    error,              \* the error the fill flow raised
    response,           \* the last sendResponse
    lastAction,         \* the handler that made the last step
    candidate,          \* login.recent of the login the popup holds (prepareLogin)
    usageLog,           \* the rows of the "log" store of the Indexed DB
    hostCalls,          \* log: the hostAction calls made for the last message
    currentAuthRequest, \* currentAuthRequest: 0 for null, else the challenge it holds
    challenges,         \* the authentication challenges: state, url, resolver, popup
    clearAuthRequest,   \* the "clearAuthRequest" alarm is set
    injection,          \* the injectScript call in progress: script, timer, promise
    credential,         \* parseFields: the fetched file and the default username
    parseOut,           \* parseFields: login.fields and login.settings, or the error
    args,               \* the arguments of a call of one of the helpers
    returned,           \* what that call returned, or that it raised
    badgeCache,         \* badgeCache: isRefreshing, expired, filled
    updates,            \* the calls of updateMatchingPasswordsCount and where they stand
    delivery,           \* receiveMessage: the message, where its handler stands, the sendResponse calls
    popup,              \* withLogin in the popup: the action, the dialog, the messages sent
    flows,              \* two handlers that record a use: their settings and where they stand
    clipboard           \* the clipboard, lastCopiedText and the clearClipboard alarm

vars == <<storage, now, pc, settings, login, fields, injectedAllFrames,
          allFrames, allowForeign, allowNoSecret, filledFields, injections,
          attempts, asked, focus, error, response, lastAction,
          candidate, usageLog, hostCalls, currentAuthRequest, challenges, clearAuthRequest,
          injection, credential, parseOut, args, returned, badgeCache, updates, delivery, popup, flows, clipboard>>

\* the input and the result of parseFields
parseVars == <<credential, parseOut>>

\* the helper calls and the badge, which the handlers modelled before them leave alone
restVars == <<args, returned, badgeCache, updates, delivery, popup, flows, clipboard>>

\* the state of the authentication challenges
authVars == <<currentAuthRequest, challenges, clearAuthRequest>>

\* what the message handlers outside an authentication request leave alone
otherVars == <<currentAuthRequest, challenges, clearAuthRequest, injection, credential, parseOut, args, returned, badgeCache, updates, delivery, popup, flows, clipboard>>

\* what a step of fillFields leaves alone
stepVars == <<candidate, usageLog, hostCalls, currentAuthRequest, challenges, clearAuthRequest,
              injection, credential, parseOut, args, returned, badgeCache, updates, delivery, popup, flows, clipboard>>

\* ------------------------------------------------------- JavaScript helpers
\* Array.prototype.includes
Includes(s, x) == \E i \in 1..Len(s) : s[i] = x

\* Array.prototype.indexOf, 1-based; 0 when absent
IndexOf(s, x) == IF Includes(s, x) THEN CHOOSE i \in 1..Len(s) : s[i] = x /\ \A j \in 1..(i - 1) : s[j] # x ELSE 0

\* a property read: a property the object does not have reads as undefined
Prop(obj, name) == IF name \in DOMAIN obj THEN obj[name] ELSE Undefined

\* .filter((val, i, merged) => val && merged.indexOf(val) === i)
RECURSIVE KeepFirst(_, _)
KeepFirst(s, i) == IF i > Len(s) THEN <<>> ELSE (IF s[i] # "" /\ IndexOf(s, s[i]) = i THEN <<s[i]>> ELSE <<>>) \o KeepFirst(s, i + 1)

\* .reduce((merged, frameResult) => merged.concat(frameResult.result.filledFields), [])
RECURSIVE MergeFrames(_)
MergeFrames(frames) == IF frames = <<>> THEN <<>> ELSE Head(frames).result.filledFields \o MergeFrames(Tail(frames))

\* ------------------------------------------------------ foreign-fill policy
\* settings.foreignFills[origin] is undefined, false, or a map foreignOrigin -> bool
EmptyMap == [f \in ForeignOrigins |-> Undefined]
NoPolicy == [kind |-> "undefined", map |-> EmptyMap]
FalsePolicy == [kind |-> "false", map |-> EmptyMap]
MapPolicy(m) == [kind |-> "map", map |-> m]
PolicyValues == {NoPolicy, FalsePolicy} \cup {MapPolicy(m) : m \in [ForeignOrigins -> Tri]}

\* defaultSettings.foreignFills = {}
EmptyForeignFills == [o \in Origins |-> NoPolicy]

\* settings.foreignFills[settings.origin] || {}
PolicyOrEmpty(p) == IF p.kind = "map" THEN p.map ELSE EmptyMap

\* a slip: the stored policy is not consulted
NotFalse_Always(p) == TRUE

\* settings.foreignFills[settings.origin] !== false
NotFalse(p) == p.kind # "false"

\* ------------------------------------------------------------------ storage
Absent(dflt) == [present |-> FALSE, value |-> dflt]
Stored(v) == [present |-> TRUE, value |-> v]

NoRecent == [when |-> 0, count |-> 0]
\* the usage map is keyed by sha1(origin + sha1(storeId + sha1(login))); the model
\* keeps the hashed triple itself (one store), so distinct triples never collide
RecentKeys == Origins \X Logins
EmptyRecent == [k \in RecentKeys |-> [present |-> FALSE, rec |-> NoRecent]]

\* var defaultSettings
defaultSettings == [autoSubmit |-> "false", foreignFills |-> EmptyForeignFills]

StorageKeys == {"autoSubmit", "foreignFills", "recent", "recent:s1"}

\* getLocalSettings: a stored value replaces the default when it is not null and truthy
\* Boolean(value): false is falsy, true and every object are truthy
Truthy(key, v) == IF key = "autoSubmit" THEN v = "true" ELSE TRUE
getLocalSettings(st) == [key \in DOMAIN defaultSettings |-> IF st[key].present /\ Truthy(key, st[key].value) THEN st[key].value ELSE defaultSettings[key]]

\* one hostAction call: the action, the status of the answer, and who made it:
\* getFullSettings, the handler of the message, or the badge refresh it starts
Call(action, ok, by) == [action |-> action, status |-> IF ok THEN "ok" ELSE "error", by |-> by]

\* the answer of the host to the "configure" call of getFullSettings
ConfigureOk(storeSettings) == [status |-> "ok", storeSettings |-> storeSettings]
ConfigureError == [status |-> "error", storeSettings |-> [autoSubmit |-> Undefined]]

\* getFullSettings: the local settings, the answer to "configure" (a non-ok answer
\* is kept as settings.hostError and the store gets no settings object), the
\* usage data and the origin of the active tab; settings.tab is 0 for a page and
\* settings.authRequested is not set there (the handler of a fill sent from the
\* popup of a challenge sets both)
getFullSettings(st, answer, tabOrigin) ==
    LET local == getLocalSettings(st) IN
    [autoSubmit |-> local.autoSubmit,
     foreignFills |-> local.foreignFills,
     hostError |-> answer.status # "ok",
     stores |-> [s1 |-> [hasSettings |-> answer.status = "ok",
                         settings |-> answer.storeSettings,
                         when |-> IF st["recent:s1"].present THEN st["recent:s1"].value ELSE 0]],
     recent |-> IF st["recent"].present THEN st["recent"].value ELSE EmptyRecent,
     origin |-> tabOrigin,
     tab |-> 0,
     authRequested |-> FALSE]

\* helpers.getSetting
getSetting(key, lg, s) ==
    IF Prop(lg.settings, key) # Undefined THEN lg.settings[key]
    ELSE IF Prop(s.stores[lg.store].settings, key) # Undefined THEN s.stores[lg.store].settings[key]
    ELSE s[key]

\* helpers.getSetting reads settings.stores[login.store.id].settings[key] when the
\* entry does not define the key: a TypeError when the store has no settings object
getSettingThrows(key, lg, s) == Prop(lg.settings, key) = Undefined /\ ~s.stores[lg.store].hasSettings

\* parseFields: the fetch must answer ok, and the closing getSetting("enableOTP")
\* (login.settings holds at most autoSubmit) must not throw
parseFieldsCompletes(fetchOk, lg, s) == fetchOk /\ ~getSettingThrows("enableOTP", lg, s)

\* prepareLogin: login.recent is the usage record of (origin, store, login), or {when: 0, count: 0}
RecentOf(s, name) == IF s.recent[<<s.origin, name>>].present THEN s.recent[<<s.origin, name>>].rec ELSE NoRecent

\* saveSettings, after the host accepted the settings: every key of defaultSettings
\* that the settings object has is written to storage
saveSettingsWrites(st, s) == [key \in DOMAIN st |-> IF key \in DOMAIN defaultSettings /\ key \in DOMAIN s THEN Stored(s[key]) ELSE st[key]]

\* a slip: the window is closed one millisecond early
UpdatedRecent_ClosedEarly(rec, t) == [when |-> t, count |-> IF t >= rec.when + IgnoreInterval THEN rec.count + 1 ELSE rec.count]

\* saveRecent: login.recent after the use at time t
UpdatedRecent(rec, t) == [when |-> t, count |-> IF t > rec.when + IgnoreInterval THEN rec.count + 1 ELSE rec.count]

\* saveRecent: settings.recent after the use at time t
RecentAfterUse(s, lg, t) == [s.recent EXCEPT ![<<s.origin, lg.login>>] = [present |-> TRUE, rec |-> UpdatedRecent(lg.recent, t)]]

\* a slip: saveRecent writes the settings of the flow back as well
saveRecentWrites_WithPolicy(st, s, lg, t) == [st EXCEPT !["recent:s1"] = Stored(t), !["recent"] = Stored(RecentAfterUse(s, lg, t)), !["foreignFills"] = Stored(s.foreignFills)]

\* saveRecent: the two chrome.storage.local.set calls
saveRecentWrites(st, s, lg, t) == [st EXCEPT !["recent:s1"] = Stored(t), !["recent"] = Stored(RecentAfterUse(s, lg, t))]

\* a slip: the row takes the wrong property of the login object
LogRow_WithSecret(s, lg, t) == [time |-> t, host |-> s.origin, login |-> lg.fields.secret]

\* saveRecent: db.add("log", {time, host, login}); the key path is time, and add
\* fails (the error is ignored) when a row with that time exists
LogRow(s, lg, t) == [time |-> t, host |-> s.origin, login |-> lg.login]
AddLogRow(log, row) == IF \E i \in DOMAIN log : log[i].time = row.time THEN log ELSE Append(log, row)

\* updateMatchingPasswordsCount(tabId, true): nothing when a refresh is running,
\* else getFullSettings and, unless hideBadge, one "list" call; the errors are logged only
BadgeCalls ==
    {<<>>}
    \cup {<<Call("configure", c, "badge")>> : c \in BOOLEAN}
    \cup {<<Call("configure", c, "badge"), Call("list", l, "badge")>> : c \in BOOLEAN, l \in BOOLEAN}

\* saveRecent: if (!login.inCurrentHost && login.recent.count === 1) updateMatchingPasswordsCount(...)
BadgeRefreshAfterUse(rec) == IF rec.count = 1 THEN BadgeCalls ELSE {<<>>}

\* clearUsageData: chrome.storage.local.remove of "foreignFills" and "recent".  The
\* loop over Object.keys(chrome.storage.local.getKeys()) sees the keys of a promise,
\* which has none, so no "recent:<store>" key is removed
clearUsageDataWrites(st) == [st EXCEPT !["foreignFills"] = Absent(EmptyForeignFills), !["recent"] = Absent(EmptyRecent)]

\* injectScript: resolves only when executeScript completes before the MAX_WAIT
\* timer; completing late, failing or never completing leaves the timer's reject
InjectOutcomes == {"intime", "late", "fails", "never"}
injectScript(outcome) == outcome = "intime"

\* injectScript step by step: no call in progress
NoInjection == [script |-> "idle", timer |-> "none", promise |-> "none"]

\* new Promise(...): setTimeout(reject, MAX_WAIT), then executeScript is started
InjectionStarted == [script |-> "running", timer |-> "armed", promise |-> "pending"]

\* the timer's callback never calls reject
TimeoutSettles_Ignored(promise) == promise

\* setTimeout(reject, MAX_WAIT): reject settles a pending promise and is
\* without effect on a settled one
TimeoutSettles(promise) == IF promise = "pending" THEN "rejected" ELSE promise

\* after the await: clearTimeout(waitTimeout); resolve(true)
ScriptCompleted(i) == [script |-> "done",
                       timer |-> IF i.timer = "armed" THEN "cleared" ELSE i.timer,
                       promise |-> IF i.promise = "pending" THEN "resolved" ELSE i.promise]

\* how the settled call looks to fillFields
OutcomeOf(i) == IF i.promise = "resolved" THEN "intime"
                ELSE IF i.script = "done" THEN "late"
                ELSE IF i.script = "failed" THEN "fails"
                ELSE "never"

\* ------------------------------------------------------------- page agent
\* the sub-sequences of the requested fields
Pick(f, S) == LET F[i \in 0..Len(f)] == IF i = 0 THEN <<>> ELSE IF i \in S THEN Append(F[i - 1], f[i]) ELSE F[i - 1] IN F[Len(f)]
SubSeqs(f) == {Pick(f, S) : S \in SUBSET (1..Len(f))}

\* window.browserpass.fillLogin in one frame: the fields it filled and, when
\* foreign frames are allowed and the user was asked about a foreign origin
\* not yet decided, the answer
FillLoginResults(req) ==
    {[filledFields |-> ff, foreignFill |-> Undefined, foreignOrigin |-> Undefined] : ff \in SubSeqs(req.fields)}
    \cup (IF req.allowForeign
          THEN {[filledFields |-> ff, foreignFill |-> "true", foreignOrigin |-> fo] : ff \in SubSeqs(req.fields), fo \in {f \in ForeignOrigins : req.foreignFills[f] = Undefined}}
               \cup {[filledFields |-> <<>>, foreignFill |-> "false", foreignOrigin |-> fo] : fo \in {f \in ForeignOrigins : req.foreignFills[f] = Undefined}}
          ELSE {})

\* chrome.scripting.executeScript: one InjectionResult {frameId, result} per frame
InjectionResults(rs) == [i \in DOMAIN rs |-> [frameId |-> i, result |-> rs[i]]]
FrameCount(af) == IF af THEN MaxFrames ELSE 1

\* --------------------------------------------------------------- dispatchFill
\* the request dispatchFill sends
FillRequest(s, flds, afo, ans) ==
    [origin |-> s.origin, fields |-> flds, allowForeign |-> afo, allowNoSecret |-> ans,
     foreignFills |-> PolicyOrEmpty(s.foreignFills[s.origin])]

\* settings.foreignFills[origin][foreignOrigin] = foreignFill, creating the map
\* of the origin when it is undefined
AssignForeignFill(ff, o, fo, v) ==
    LET m == IF ff[o].kind = "undefined" THEN EmptyMap ELSE ff[o].map IN
    [ff EXCEPT ![o] = MapPolicy([f \in (DOMAIN m) \cup {fo} |-> IF f = fo THEN v ELSE m[f]])]

\* for (let frame of perFrameResults) { if (typeof frame.foreignFill !== "undefined") ... }
RECURSIVE StoreAnswers(_, _, _)
StoreAnswers(ff, o, frames) ==
    IF frames = <<>> THEN ff
    ELSE IF Prop(Head(frames), "foreignFill") # Undefined
         THEN StoreAnswers(AssignForeignFill(ff, o, Prop(Head(frames), "foreignOrigin"), Prop(Head(frames), "foreignFill")), o, Tail(frames))
         ELSE StoreAnswers(ff, o, Tail(frames))

foreignFillsChanged(frames) == \E i \in DOMAIN frames : Prop(frames[i], "foreignFill") # Undefined

\* dispatchFill, from the response of executeScript on: the merged filled fields,
\* the settings object and the storage it leaves
dispatchFill(st, s, frames) ==
    LET s2 == [s EXCEPT !.foreignFills = StoreAnswers(s.foreignFills, s.origin, frames)] IN
    [filledFields |-> KeepFirst(MergeFrames(frames), 1),
     settings |-> s2,
     storage |-> IF foreignFillsChanged(frames) THEN saveSettingsWrites(st, s2) ELSE st]

\* the confirmation decisions the frames of one response carry, in frame order
RECURSIVE Decisions(_)
Decisions(rs) ==
    IF rs = <<>> THEN <<>>
    ELSE (IF Head(rs).foreignFill # Undefined THEN <<[foreignOrigin |-> Head(rs).foreignOrigin, foreignFill |-> Head(rs).foreignFill]>> ELSE <<>>) \o Decisions(Tail(rs))

\* dispatchFocusOrSubmit: the request and its target
FocusRequest(s, lg, filled, af, afo) ==
    [allFrames |-> af, allowForeign |-> afo,
     policy |-> s.foreignFills[s.origin],
     foreignFills |-> PolicyOrEmpty(s.foreignFills[s.origin]),
     autoSubmit |-> getSetting("autoSubmit", lg, s),
     filledFields |-> filled]

\* ------------------------------------------------------------------ fillFields
\* let importantFieldToFill = fields.includes("openid") ? "openid" : "secret"
importantFieldToFill(flds) == IF Includes(flds, "openid") THEN "openid" ELSE "secret"

\* let allowNoSecret = !fields.includes("secret")
InitialAllowNoSecret(flds) == ~Includes(flds, "secret")

\* if (injectedAllFrames) { if (!filledFields.includes(importantFieldToFill)) ...
TrySameOrigin(inj, filled, flds) == inj /\ ~Includes(filled, importantFieldToFill(flds))

\* a slip: the foreign attempt is made whatever was filled before
TryForeign_IgnoresFilled(inj, filled, flds, s) == inj /\ NotFalse(s.foreignFills[s.origin])

\* if (injectedAllFrames) { ... if (!filledFields.includes(importantFieldToFill) &&
\*                                  settings.foreignFills[settings.origin] !== false) ...
TryForeign(inj, filled, flds, s) == inj /\ ~Includes(filled, importantFieldToFill(flds)) /\ NotFalse(s.foreignFills[s.origin])

\* if (!allowNoSecret) { ... if (!filledFields.length) ...
RetryTop(filled) == Len(filled) = 0

\* if (injectedAllFrames) { if (!filledFields.length) ...
RetrySameOrigin(inj, filled) == inj /\ Len(filled) = 0

\* a slip: the foreign retry is outside the if (injectedAllFrames) block
RetryForeign_NoInjectCheck(inj, filled, s) == Len(filled) = 0 /\ NotFalse(s.foreignFills[s.origin])

\* if (injectedAllFrames) { ... if (!filledFields.length && settings.foreignFills[settings.origin] !== false) ...
RetryForeign(inj, filled, s) == inj /\ Len(filled) = 0 /\ NotFalse(s.foreignFills[s.origin])

\* a slip: the empty result is not checked
NoFillableForms_Never(filled) == FALSE

\* if (!filledFields.length) throw new Error(`No fillable forms available ...`)
NoFillableForms(filled) == Len(filled) = 0

\* the errors of the fill flow: a message and the fields it names
NoError == <<"", <<>> >>
ErrInject == <<"Unable to inject script in the top frame", <<>> >>
ErrNoForms(flds) == <<"No fillable forms available for fields", flds>>
ErrScript == <<"executeScript rejected", <<>> >>
ErrFetch == <<"Unable to fetch and parse login fields", <<>> >>

\* a slip: the failure of the top-frame injection is swallowed like the other one
TopInjectionNext_Swallowed(ok) == "injectAll"

\* try { await injectScript(settings, false) } catch { throw new Error(...) }
TopInjectionNext(ok) == IF ok THEN "injectAll" ELSE "failed"

\* a slip: the flag is set before the injection is awaited
AllFramesInjected_Always(ok) == TRUE

\* try { await injectScript(settings, true); injectedAllFrames = true } catch {}
AllFramesInjected(ok) == ok
NoResponse == [status |-> "none", message |-> NoError, filledFields |-> <<>>]
Ok(filled) == [status |-> "ok", message |-> NoError, filledFields |-> filled]
Err(msg) == [status |-> "error", message |-> msg, filledFields |-> <<>>]

\* the values a parsed entry holds in login.fields.secret and login.fields.otp
SecretValues == {"s3cret", "otp5eed"}
NoFields == [secret |-> Undefined, otp |-> Undefined]
ParsedFields == [secret |-> "s3cret", otp |-> "otp5eed"]

NoLogin == [login |-> "l1", store |-> "s1", settings |-> [autoSubmit |-> Undefined], openid |-> FALSE, recent |-> NoRecent, fields |-> NoFields]

\* the autosubmit line of the entry and the autoSubmit setting of its store
AutoSubmitInputs == {<<Undefined, Undefined>>, <<Undefined, "true">>, <<"false", "true">>}

\* the foreignFills of a settings object that a saveSettings message carries
PolicyInputs == {[o \in Origins |-> IF o = "o1" THEN p ELSE NoPolicy] : p \in PolicyValues}
                \cup {[o \in Origins |-> IF o = "o1" THEN NoPolicy ELSE FalsePolicy]}

\* the answer of the host to the configure call of getFullSettings
ConfigureAnswer(ok, storeSettings) == IF ok THEN ConfigureOk(storeSettings) ELSE ConfigureError

\* ------------------------------------------------ authentication challenges
Challenges == 1..MaxChallenges

\* details.url of a challenge; the popup of the challenge is opened at
\* getPopupUrl() + "?authUrl=" + encodeURIComponent(details.url), so one popup
\* url is a prefix of another exactly when the challenge urls are
Urls == {"a", "ab"}

\* String.prototype.startsWith
StartsWith(u, v) == u = v \/ (u = "ab" /\ v = "a")

\* a challenge: where it is (none: not arrived, creating: chrome.windows.create
\* awaited, registered: it has been made currentAuthRequest, dismissed: answered
\* at arrival, failed: no window), its url, what its resolver was invoked with
\* and how often, its popup window, and the older challenges that were pending
\* when it arrived
NoChallenge == [status |-> "none", url |-> "a", resolved |-> "pending", invocations |-> 0, window |-> "none", olderPending |-> {}]

\* the resolver of challenge n is invoked with message m
Resolve(ch, n, m) == [ch EXCEPT ![n].resolved = m, ![n].invocations = @ + 1]

\* a slip: the request stays current after its resolver was invoked
resolveAuthRequest_KeepsCurrent(cur, ch, m, senderUrl) ==
    IF cur # 0 /\ StartsWith(senderUrl, ch[cur].url)
    THEN [current |-> cur, challenges |-> Resolve(ch, cur, m)]
    ELSE [current |-> cur, challenges |-> ch]

\* resolveAuthRequest(message, senderUrl)
resolveAuthRequest(cur, ch, m, senderUrl) ==
    IF cur # 0 /\ StartsWith(senderUrl, ch[cur].url)
    THEN [current |-> 0, challenges |-> Resolve(ch, cur, m)]
    ELSE [current |-> cur, challenges |-> ch]

\* a slip: the check for a request in progress is missing
AuthRequestInProgress_Never(cur) == FALSE

\* onAuthRequired: if (currentAuthRequest)
AuthRequestInProgress(cur) == cur # 0

\* getFullSettings: settings.authRequested, for the popup of challenge w as the active tab
authRequested(cur, ch, w) == cur # 0 /\ StartsWith(ch[w].url, ch[cur].url)

runVars == <<pc, settings, login, fields, injectedAllFrames, allFrames, allowForeign,
             allowNoSecret, filledFields, injections, attempts, asked, focus, error, injection,
             credential, parseOut, args, returned, badgeCache, updates, delivery, popup, flows, clipboard>>

\* the locals and logs of fillFields, which the other handlers leave alone
flowVars == <<settings, login, fields, injectedAllFrames, allFrames, allowForeign,
              allowNoSecret, filledFields, injections, attempts, asked, focus, error, injection,
             credential, parseOut, args, returned, badgeCache, updates, delivery, popup, flows, clipboard>>

\* ------------------------------------------------------------ parseFields
\* A string is a sequence of chunks: a blank, a colon, or a word that holds
\* neither; a file is the sequence of its lines (raw.split(/[\r\n]+/)).
MaxLines == 2
Words == {"pass", "Login", "autosubmit", "url", "x"}
Opt(S) == {<<>>} \cup {<<x>> : x \in S}
Lines ==
    {p \o w : p \in Opt({" "}), w \in Opt(Words)}
    \cup {p \o k \o <<":">> \o g \o v \o e : p \in Opt({" "}), k \in Opt(Words), g \in Opt({" "}),
                                             v \in Opt(Words) \cup {<<"x", ":", "x">>}, e \in Opt({" "})}
Texts == UNION {[1..n -> Lines] : n \in 0..MaxLines}

\* helpers.fieldsPrefix, in the order of its keys
fieldsPrefix ==
    [secret |-> {"secret", "password", "pass"},
     login |-> {"login", "username", "user"},
     openid |-> {"openid"},
     otp |-> {"otp", "totp"},
     url |-> {"url", "uri", "website", "site", "link", "launch"}]
FieldKeys == <<"secret", "login", "openid", "otp", "url">>
allowEmpty == {"login"}

\* the values of a property of login.fields: the alias array it starts with, a
\* string, undefined, or no property at all
AliasArray == [kind |-> "array", value |-> <<>>]
Str(v) == [kind |-> "string", value |-> v]
Undef == [kind |-> "undefined", value |-> <<>>]
Deleted == [kind |-> "absent", value |-> <<>>]

\* String.prototype.toLowerCase
Lower(w) == IF w = "Login" THEN "login" ELSE IF w = "C" THEN "c" ELSE w
toLowerCase(s) == [i \in DOMAIN s |-> Lower(s[i])]

\* String.prototype.trim
RECURSIVE trimStart(_)
trimStart(s) == IF s # <<>> /\ Head(s) = " " THEN trimStart(Tail(s)) ELSE s
RECURSIVE trimEnd(_)
trimEnd(s) == IF s # <<>> /\ s[Len(s)] = " " THEN trimEnd(SubSeq(s, 1, Len(s) - 1)) ELSE s
trim(s) == trimEnd(trimStart(s))

\* the value is kept as it stands in the line
Cleaned_Untrimmed(value) == value

\* .map((value) => value.trim())
Cleaned(value) == trim(value)

\* .filter((line) => line.trim().length > 0)
NonBlank(lines) == SelectSeq(lines, LAMBDA line : Len(trim(line)) > 0)

\* line.match(/^(.+?):(.*)$/): the groups around the first colon that has a
\* character before it, <<>> for null
Match(line) ==
    LET at == {i \in 2..Len(line) : line[i] = ":"}
    IN  IF at = {} THEN <<>>
        ELSE LET i == CHOOSE i \in at : \A j \in at : i <= j
             IN  <<SubSeq(line, 1, i - 1), SubSeq(line, i + 1, Len(line))>>

\* parts.slice(1).map(trim).filter((value) => value.length)
Parts(m) == SelectSeq([j \in 1..2 |-> Cleaned(m[j])], LAMBDA value : Len(value) > 0)

\* login.fields and login.settings before the first line, with the log of what
\* each line did
ParseStart ==
    [fields |-> [k \in DOMAIN fieldsPrefix |-> AliasArray],
     autoSubmit |-> "type",
     threw |-> FALSE,
     log |-> <<>>]
Logged(st, what) == [st EXCEPT !.log = Append(@, what)]

\* for (var key in login.fields): the key whose alias array includes parts[0]
MatchingKeys(st, parts) ==
    {i \in DOMAIN FieldKeys : /\ st.fields[FieldKeys[i]].kind = "array"
                              /\ \E a \in fieldsPrefix[FieldKeys[i]] : toLowerCase(parts[1]) = <<a>>}

\* for (var key in login.settings): autoSubmit while it still is the typed
\* placeholder; parts[1].toLowerCase() throws when there is no parts[1]
AssignSetting(st, parts, what) ==
    IF st.autoSubmit = "type" /\ toLowerCase(parts[1]) = <<"autosubmit">>
    THEN IF Len(parts) < 2 THEN Logged([st EXCEPT !.threw = TRUE], "threw")
         ELSE Logged([st EXCEPT !.autoSubmit =
                          IF toLowerCase(parts[2]) \in {<<"true">>, <<"yes">>} THEN "true" ELSE "false"],
                     "autoSubmit")
    ELSE Logged(st, what)

\* the body of lines.forEach
ParseLine(st, line) ==
    IF st.threw THEN st
    ELSE IF Match(line) = <<>> THEN Logged(st, "none")
    ELSE LET parts == Parts(Match(line))
             hits == MatchingKeys(st, parts)
         IN  IF parts = <<>> THEN Logged(st, "none")
             ELSE IF hits = {} THEN AssignSetting(st, parts, "none")
             ELSE LET key == FieldKeys[CHOOSE i \in hits : \A j \in hits : i <= j]
                  IN  IF Len(parts) < 2 /\ key \notin allowEmpty THEN Logged(st, "none")
                      ELSE AssignSetting([st EXCEPT !.fields[key] =
                                              IF Len(parts) < 2 THEN Undef ELSE Str(parts[2])],
                                         parts, key)

RECURSIVE ParseLines(_, _)
ParseLines(st, lines) == IF lines = <<>> THEN st ELSE ParseLines(ParseLine(st, Head(lines)), Tail(lines))

\* login.login.match(/([^\/]+)$/)[1] of the entry dir/l1
EntryName == <<"dir", "l1">>
LastSegment(name) == name[Len(name)]

\* helpers.getSetting("username", login, settings), undefined or a name
DefaultUsernames == {Undefined, "bob"}

\* clean up unassigned fields
CleanField(key, v, lines, username) ==
    IF v.kind # "array" THEN v
    ELSE IF key = "secret" /\ Len(lines) > 0 THEN Str(lines[1])
    ELSE IF key = "login" THEN Str(<<IF username # Undefined THEN username ELSE LastSegment(EntryName)>>)
    ELSE Deleted

\* the result of parseFields
NoParse == [status |-> "none", fields |-> ParseStart.fields, autoSubmit |-> "type", log |-> <<>>]
ParseError(log) == [status |-> "threw", fields |-> ParseStart.fields, autoSubmit |-> "type", log |-> log]
parseFields(fetchOk, contents, username) ==
    IF ~fetchOk THEN [ParseError(<<>>) EXCEPT !.status = "fetchFailed"]
    ELSE LET lines == NonBlank(contents)
             st == ParseLines(ParseStart, lines)
         IN  IF st.threw THEN ParseError(st.log)
             ELSE [status |-> "ok",
                   fields |-> [k \in DOMAIN st.fields |-> CleanField(k, st.fields[k], lines, username)],
                   autoSubmit |-> IF st.autoSubmit = "type" THEN "absent" ELSE st.autoSubmit,
                   log |-> st.log]

NoCredential == [contents |-> <<>>, username |-> Undefined]

\* ------------------------------------------------------ calls of helpers
\* no helper called
NoArgs == [fn |-> "none"]
NoReturn == [status |-> "none", value |-> Undefined]
Returned(v) == [status |-> "returned", value |-> v]
Threw == [status |-> "threw", value |-> Undefined]

\* -------------------------------------------------------------- the badge
MaxUpdates == 3
Updates == 1..MaxUpdates
NoUpdate == [at |-> "none", caller |-> "none", forceRefresh |-> FALSE]

\* the message of no action, and no message received
NoMessage == [action |-> "none", otp |-> FALSE, enableOTP |-> FALSE, authRequested |-> FALSE]
NoDelivery == [at |-> "none", sender |-> "none", message |-> NoMessage, responses |-> <<>>, loads |-> 0, calls |-> 0]

\* the popup has not been asked for an action
NoPopup == [at |-> "none", action |-> "none", authRequested |-> FALSE, url |-> "null",
            confirmedAlready |-> FALSE, proceeded |-> FALSE, sent |-> 0]

\* two messages, each about a credential of its own (the same origin and store)
Flows == {1, 2}
FlowLogin(f) == IF f = 1 THEN "l1" ELSE "l2"
FlowKeys == {<<"o1", FlowLogin(f)>> : f \in Flows}
EmptyUsage == [k \in FlowKeys |-> [present |-> FALSE, rec |-> NoRecent]]
NoFlow == [at |-> "none", recent |-> EmptyUsage, login |-> NoRecent]

\* no handler is recording a use, and the stored usage map is empty
NoFlows == [stored |-> EmptyUsage, flow |-> [f \in Flows |-> NoFlow]]

\* let lastCopiedText = null, and nothing on the clipboard; .alarm is the
\* pending clearClipboard alarm, .at the await its listener stands at, .read
\* what readFromClipboard returned to it, and .copied the text of the last
\* copyToClipboard call with clear set ("null" before the first)
NoClipboard == [content |-> "", lastCopiedText |-> "null", alarm |-> FALSE, at |-> "none",
                read |-> "null", copied |-> "null"]

InitProgram ==
    /\ storage = [key \in StorageKeys |-> IF key = "foreignFills" THEN Absent(EmptyForeignFills)
                                          ELSE IF key = "recent" THEN Absent(EmptyRecent)
                                          ELSE IF key = "autoSubmit" THEN Absent("false")
                                          ELSE Absent(0)]
    /\ now = IgnoreInterval + 1
    /\ pc = "idle"
    /\ settings = getFullSettings(storage, ConfigureOk([autoSubmit |-> Undefined]), "o1")
    /\ login = NoLogin
    /\ fields = <<>>
    /\ injectedAllFrames = FALSE
    /\ allFrames = FALSE
    /\ allowForeign = FALSE
    /\ allowNoSecret = FALSE
    /\ filledFields = <<>>
    /\ injections = <<>>
    /\ attempts = <<>>
    /\ asked = <<>>
    /\ focus = <<>>
    /\ error = NoError
    /\ response = NoResponse
    /\ lastAction = "init"
    /\ candidate = NoRecent
    /\ usageLog = <<>>
    /\ hostCalls = <<>>
    /\ currentAuthRequest = 0
    /\ challenges = [n \in Challenges |-> NoChallenge]
    /\ clearAuthRequest = FALSE
    /\ injection = NoInjection
    /\ badgeCache = [isRefreshing |-> FALSE, expired |-> TRUE, filled |-> FALSE]
    /\ updates = [u \in Updates |-> NoUpdate]
    /\ delivery = NoDelivery
    /\ popup = NoPopup
    /\ flows = NoFlows
    /\ clipboard = NoClipboard

\* the extension after start-up, no credential fetched
Init ==
    /\ InitProgram
    /\ credential = NoCredential
    /\ parseOut = NoParse
    /\ args = NoArgs
    /\ returned = NoReturn

\* receiveMessage / handleMessage, action "fill": getFullSettings, parseFields
\* (one fetch from the host), then fillFields up to its first injectScript
FillStart ==
    /\ pc = "idle"
    /\ lastAction' = "fill"
    /\ \E tabOrigin \in {"o1"}, auto \in AutoSubmitInputs, configureOk \in BOOLEAN, fetchOk \in BOOLEAN, openid \in BOOLEAN :
        LET s == getFullSettings(storage, ConfigureAnswer(configureOk, [autoSubmit |-> auto[2]]), tabOrigin)
            lg == [login |-> "l1", store |-> "s1", settings |-> [autoSubmit |-> auto[1]],
                   openid |-> openid, recent |-> candidate, fields |-> ParsedFields]
            parsed == parseFieldsCompletes(fetchOk, lg, s) IN
        /\ settings' = s
        /\ login' = lg
        /\ fields' = IF openid THEN <<"openid">> ELSE <<"login", "secret">>
        /\ hostCalls' = <<Call("configure", configureOk, "getFullSettings"), Call("fetch", fetchOk, "handler")>>
        /\ pc' = IF parsed THEN "injectTop" ELSE "responded"
        /\ response' = IF parsed THEN NoResponse ELSE Err(ErrFetch)
    /\ injectedAllFrames' = FALSE
    /\ allFrames' = FALSE
    /\ allowForeign' = FALSE
    /\ allowNoSecret' = FALSE
    /\ filledFields' = <<>>
    /\ injections' = <<>>
    /\ attempts' = <<>>
    /\ asked' = <<>>
    /\ focus' = <<>>
    /\ error' = NoError
    /\ UNCHANGED <<storage, now, candidate, usageLog>>
    /\ UNCHANGED otherVars

\* try { await injectScript(settings, false) } catch { throw ... }
InjectTop ==
    /\ pc = "injectTop"
    /\ \E outcome \in InjectOutcomes :
        /\ injections' = Append(injections, [allFrames |-> FALSE, outcome |-> outcome])
        /\ pc' = TopInjectionNext(injectScript(outcome))
        /\ error' = IF injectScript(outcome) THEN error ELSE ErrInject
    /\ asked' = <<>>
    /\ lastAction' = "fill"
    /\ UNCHANGED <<storage, now, settings, login, fields, injectedAllFrames, allFrames,
                   allowForeign, allowNoSecret, filledFields, attempts, focus, response>>
    /\ UNCHANGED stepVars

\* try { await injectScript(settings, true); injectedAllFrames = true } catch {},
\* then the initial values of the locals
InjectAll ==
    /\ pc = "injectAll"
    /\ \E outcome \in InjectOutcomes :
        /\ injections' = Append(injections, [allFrames |-> TRUE, outcome |-> outcome])
        /\ injectedAllFrames' = AllFramesInjected(injectScript(outcome))
    /\ allFrames' = FALSE
    /\ allowForeign' = FALSE
    /\ allowNoSecret' = InitialAllowNoSecret(fields)
    /\ filledFields' = <<>>
    /\ pc' = "fill1"
    /\ asked' = <<>>
    /\ lastAction' = "fill"
    /\ UNCHANGED <<storage, now, settings, login, fields, attempts, focus, error, response>>
    /\ UNCHANGED stepVars

\* one call of dispatchFill with the locals set to (af, afo, ans); executeScript
\* answers with one result per frame, or rejects
Dispatch(af, afo, ans, next) ==
    LET req == FillRequest(settings, fields, afo, ans) IN
    /\ allFrames' = af
    /\ allowForeign' = afo
    /\ allowNoSecret' = ans
    /\ \E scriptOk \in BOOLEAN :
        IF scriptOk
        THEN \E rs \in [1..FrameCount(af) -> FillLoginResults(req)] :
                LET r == dispatchFill(storage, settings, InjectionResults(rs)) IN
                /\ attempts' = Append(attempts, [allFrames |-> af, allowForeign |-> afo, allowNoSecret |-> ans,
                                                 policy |-> settings.foreignFills[settings.origin],
                                                 foreignFills |-> req.foreignFills, returned |-> TRUE,
                                                 filledFields |-> r.filledFields])
                /\ asked' = Decisions(rs)
                /\ filledFields' = filledFields \o r.filledFields
                /\ settings' = r.settings
                /\ storage' = r.storage
                /\ pc' = next
                /\ error' = error
        ELSE /\ attempts' = Append(attempts, [allFrames |-> af, allowForeign |-> afo, allowNoSecret |-> ans,
                                              policy |-> settings.foreignFills[settings.origin],
                                              foreignFills |-> req.foreignFills, returned |-> FALSE,
                                              filledFields |-> <<>>])
             /\ asked' = <<>>
             /\ pc' = "failed"
             /\ error' = ErrScript
             /\ UNCHANGED <<filledFields, settings, storage>>
    /\ lastAction' = "fill"
    /\ UNCHANGED <<now, login, fields, injectedAllFrames, injections, focus, response>>
    /\ UNCHANGED stepVars

\* the branch of fillFields that makes no call
Skip(next) ==
    /\ pc' = next
    /\ asked' = <<>>
    /\ lastAction' = "fill"
    /\ UNCHANGED <<storage, now, settings, login, fields, injectedAllFrames, allFrames,
                   allowForeign, allowNoSecret, filledFields, injections, attempts, focus, error, response>>
    /\ UNCHANGED stepVars

\* fill form via injected script: the top frame
Fill1 ==
    /\ pc = "fill1"
    /\ Dispatch(allFrames, allowForeign, allowNoSecret, "fill2")

\* try again using same-origin frames if we couldn't fill an "important" field
Fill2 ==
    /\ pc = "fill2"
    /\ IF TrySameOrigin(injectedAllFrames, filledFields, fields)
       THEN Dispatch(TRUE, allowForeign, allowNoSecret, "fill3")
       ELSE Skip("fill3")

\* try again using all available frames if we couldn't fill an "important" field
Fill3 ==
    /\ pc = "fill3"
    /\ IF TryForeign(injectedAllFrames, filledFields, fields, settings)
       THEN Dispatch(allFrames, TRUE, allowNoSecret, "relax")
       ELSE Skip("relax")

\* if (!allowNoSecret) { allowNoSecret = true; try again using only the top frame
Fill4 ==
    /\ pc = "relax"
    /\ IF ~allowNoSecret
       THEN IF RetryTop(filledFields)
            THEN Dispatch(FALSE, FALSE, TRUE, "fill5")
            ELSE /\ allowNoSecret' = TRUE
                 /\ pc' = "fill5"
                 /\ asked' = <<>>
                 /\ lastAction' = "fill"
                 /\ UNCHANGED <<storage, now, settings, login, fields, injectedAllFrames, allFrames,
                                allowForeign, filledFields, injections, attempts, focus, error, response>>
                 /\ UNCHANGED stepVars
       ELSE Skip("finish")

\* try again using same-origin frames
Fill5 ==
    /\ pc = "fill5"
    /\ IF RetrySameOrigin(injectedAllFrames, filledFields)
       THEN Dispatch(TRUE, allowForeign, allowNoSecret, "fill6")
       ELSE Skip("fill6")

\* try again using all available frames
Fill6 ==
    /\ pc = "fill6"
    /\ IF RetryForeign(injectedAllFrames, filledFields, settings)
       THEN Dispatch(allFrames, TRUE, allowNoSecret, "finish")
       ELSE Skip("finish")

\* the end of fillFields: the error when nothing was filled, else the
\* focus-or-submit instruction with the current allFrames and allowForeign
Finish ==
    /\ pc = "finish"
    /\ asked' = <<>>
    /\ IF NoFillableForms(filledFields)
       THEN /\ pc' = "failed"
            /\ error' = ErrNoForms(fields)
            /\ focus' = focus
       ELSE /\ focus' = Append(focus, FocusRequest(settings, login, filledFields, allFrames, allowForeign))
            /\ \E scriptOk \in BOOLEAN :
                /\ pc' = IF scriptOk THEN "filled" ELSE "failed"
                /\ error' = IF scriptOk THEN error ELSE ErrScript
    /\ lastAction' = "fill"
    /\ UNCHANGED <<storage, now, settings, login, fields, injectedAllFrames, allFrames,
                   allowForeign, allowNoSecret, filledFields, injections, attempts, response>>
    /\ UNCHANGED stepVars

\* saveRecent(settings, login) as a step of a handler: the storage writes, the
\* badge refresh it may start and the row of the usage log
SaveRecentStep(s, lg, calls) ==
    /\ storage' = saveRecentWrites(storage, s, lg, now)
    /\ \E badge \in BadgeRefreshAfterUse(UpdatedRecent(lg.recent, now)) : hostCalls' = calls \o badge
    /\ \E logOk \in BOOLEAN : usageLog' = IF logOk THEN AddLogRow(usageLog, LogRow(s, lg, now)) ELSE usageLog

\* a slip: the use is recorded whether or not fillFields threw
UsageAfterFill_Always(st, s, lg, t, threw) == saveRecentWrites(st, s, lg, t)

\* try { filledFields = await fillFields(...); await saveRecent(...); } catch:
\* saveRecent follows fillFields in the try block, a throw of fillFields skips it
UsageAfterFill(st, s, lg, t, threw) == IF threw THEN st ELSE saveRecentWrites(st, s, lg, t)

\* handleMessage, action "fill", after fillFields returned: saveRecent, sendResponse
FillRespond ==
    /\ pc = "filled"
    /\ SaveRecentStep(settings, login, hostCalls)
    /\ settings' = [settings EXCEPT !.recent = RecentAfterUse(settings, login, now)]
    /\ login' = [login EXCEPT !.recent = UpdatedRecent(login.recent, now)]
    /\ response' = Ok(filledFields)
    /\ asked' = <<>>
    /\ pc' = "responded"
    /\ lastAction' = "fill"
    /\ UNCHANGED <<now, fields, injectedAllFrames, allFrames, allowForeign, allowNoSecret,
                   filledFields, injections, attempts, focus, error, candidate>>
    /\ UNCHANGED otherVars

\* handleMessage, action "fill", catch: sendResponse({status: "error", ...})
FillFail ==
    /\ pc = "failed"
    /\ storage' = UsageAfterFill(storage, settings, login, now, TRUE)
    /\ response' = Err(error)
    /\ asked' = <<>>
    /\ pc' = "responded"
    /\ lastAction' = "fill"
    /\ UNCHANGED <<now, settings, login, fields, injectedAllFrames, allFrames,
                   allowForeign, allowNoSecret, filledFields, injections, attempts, focus, error>>
    /\ UNCHANGED stepVars

\* the handler has returned: its settings object, its locals and the logs of the
\* message are dropped
FillEnd ==
    /\ pc = "responded"
    /\ pc' = "idle"
    /\ settings' = getFullSettings(storage, ConfigureOk([autoSubmit |-> Undefined]), "o1")
    /\ login' = NoLogin
    /\ fields' = <<>>
    /\ injectedAllFrames' = FALSE
    /\ allFrames' = FALSE
    /\ allowForeign' = FALSE
    /\ allowNoSecret' = FALSE
    /\ filledFields' = <<>>
    /\ injections' = <<>>
    /\ attempts' = <<>>
    /\ asked' = <<>>
    /\ focus' = <<>>
    /\ error' = NoError
    /\ response' = NoResponse
    /\ hostCalls' = <<>>
    /\ lastAction' = "idle"
    /\ UNCHANGED <<storage, now, candidate, usageLog>>
    /\ UNCHANGED otherVars

\* Each user action is one serialized flow: a message is handled when no other
\* flow is running
BetweenSteps == pc = "idle"

\* the popup refreshes its listing: helpers.prepareLogin looks the usage record of
\* the login up in the settings it has just loaded; the login object it keeps is
\* the one later messages carry
PrepareLogins ==
    /\ BetweenSteps
    /\ candidate' = RecentOf(getFullSettings(storage, ConfigureOk([autoSubmit |-> Undefined]), "o1"), "l1")
    /\ lastAction' = "prepareLogins"
    /\ UNCHANGED <<storage, now, response, usageLog, hostCalls>>
    /\ UNCHANGED runVars
    /\ UNCHANGED otherVars

\* a slip: the status of the answer is not looked at
HandlerResponse_IgnoresStatus(call, msg) == Ok(<<>>)

\* if (response.status != "ok") { throw ... } sendResponse({status: "ok", ...})
\* catch (e) { sendResponse({status: "error", ...}) }
HandlerResponse(call, msg) == IF call.status # "ok" THEN Err(<<msg, <<>> >>) ELSE Ok(<<>>)

\* a slip: the settings are written before the answer of the host is looked at
saveSettings_WritesFirst(st, s, call) == saveSettingsWrites(st, s)

\* saveSettings: var response = await hostAction(settingsToSave, "configure");
\* if (response.status != "ok") throw; then the chrome.storage.local.set calls
saveSettings(st, s, call) == IF call.status # "ok" THEN st ELSE saveSettingsWrites(st, s)

\* handleMessage, action "saveSettings": saveSettings(message.settings): the
\* configure call, the writes, and the badge refresh
SaveSettingsMsg ==
    /\ BetweenSteps
    /\ \E auto \in {"true", "false"}, ff \in PolicyInputs, loadOk \in BOOLEAN, configureOk \in BOOLEAN, badge \in BadgeCalls :
        LET call == Call("configure", configureOk, "handler") IN
        /\ storage' = saveSettings(storage, [autoSubmit |-> auto, foreignFills |-> ff], call)
        /\ response' = HandlerResponse(call, "configure")
        /\ hostCalls' = <<Call("configure", loadOk, "getFullSettings"), call>> \o (IF configureOk THEN badge ELSE <<>>)
    /\ lastAction' = "saveSettings"
    /\ UNCHANGED <<now, candidate, usageLog>>
    /\ pc' = "responded"
    /\ UNCHANGED flowVars
    /\ UNCHANGED otherVars

\* handleMessage, action "clearUsageData": the removals, then getKeys and
\* idb.deleteDB, either of which may fail
ClearUsageDataMsg ==
    /\ BetweenSteps
    /\ storage' = clearUsageDataWrites(storage)
    /\ \E completes \in BOOLEAN :
        /\ response' = IF completes THEN Ok(<<>>) ELSE Err(<<"clearUsageData", <<>> >>)
        /\ usageLog' = IF completes THEN <<>> ELSE usageLog
    /\ \E loadOk \in BOOLEAN : hostCalls' = <<Call("configure", loadOk, "getFullSettings")>>
    /\ lastAction' = "clearUsageData"
    /\ UNCHANGED <<now, candidate>>
    /\ pc' = "responded"
    /\ UNCHANGED flowVars
    /\ UNCHANGED otherVars

\* handleMessage, actions "copyPassword" and "copyUsername": getFullSettings,
\* parseFields, copyToClipboard, saveRecent
CopyMsg ==
    /\ BetweenSteps
    /\ \E tabOrigin \in {"o1"}, loadOk \in BOOLEAN, fetchOk \in BOOLEAN, copyOk \in BOOLEAN :
        LET s == getFullSettings(storage, ConfigureAnswer(loadOk, [autoSubmit |-> Undefined]), tabOrigin)
            lg == [NoLogin EXCEPT !.recent = candidate, !.fields = ParsedFields]
            calls == <<Call("configure", loadOk, "getFullSettings"), Call("fetch", fetchOk, "handler")>>
            parsed == parseFieldsCompletes(fetchOk, lg, s) IN
        IF parsed /\ copyOk
        THEN /\ SaveRecentStep(s, lg, calls)
             /\ response' = Ok(<<>>)
        ELSE /\ response' = IF ~parsed THEN Err(ErrFetch) ELSE Err(<<"Unable to copy", <<>> >>)
             /\ hostCalls' = calls
             /\ UNCHANGED <<storage, usageLog>>
    /\ lastAction' = "copy"
    /\ UNCHANGED <<now, candidate>>
    /\ pc' = "responded"
    /\ UNCHANGED flowVars
    /\ UNCHANGED otherVars

\* handleMessage, actions "launch" and "launchInNewTab": parseFields, then the tab is opened
LaunchMsg ==
    /\ BetweenSteps
    /\ \E loadOk \in BOOLEAN, fetchOk \in BOOLEAN, hasUrl \in BOOLEAN :
        LET s == getFullSettings(storage, ConfigureAnswer(loadOk, [autoSubmit |-> Undefined]), "o1")
            parsed == parseFieldsCompletes(fetchOk, [NoLogin EXCEPT !.fields = ParsedFields], s) IN
        /\ response' = IF ~parsed THEN Err(ErrFetch) ELSE IF ~hasUrl THEN Err(<<"Unable to launch URL", <<>> >>) ELSE Ok(<<>>)
        /\ hostCalls' = <<Call("configure", loadOk, "getFullSettings"), Call("fetch", fetchOk, "handler")>>
    /\ lastAction' = "launch"
    /\ UNCHANGED <<storage, now, candidate, usageLog>>
    /\ pc' = "responded"
    /\ UNCHANGED flowVars
    /\ UNCHANGED otherVars

\* handleMessage, action "listFiles": one "list" call to the host
ListFilesMsg ==
    /\ BetweenSteps
    /\ \E loadOk \in BOOLEAN, listOk \in BOOLEAN :
        LET call == Call("list", listOk, "handler") IN
        /\ response' = HandlerResponse(call, "Unable to enumerate password files")
        /\ hostCalls' = <<Call("configure", loadOk, "getFullSettings"), call>>
    /\ lastAction' = "listFiles"
    /\ UNCHANGED <<storage, now, candidate, usageLog>>
    /\ pc' = "responded"
    /\ UNCHANGED flowVars
    /\ UNCHANGED otherVars

\* handleMessage, action "listDirs": one "tree" call to the host
ListDirsMsg ==
    /\ BetweenSteps
    /\ \E loadOk \in BOOLEAN, treeOk \in BOOLEAN :
        LET call == Call("tree", treeOk, "handler") IN
        /\ response' = HandlerResponse(call, "Unable to enumerate directory trees")
        /\ hostCalls' = <<Call("configure", loadOk, "getFullSettings"), call>>
    /\ lastAction' = "listDirs"
    /\ UNCHANGED <<storage, now, candidate, usageLog>>
    /\ pc' = "responded"
    /\ UNCHANGED flowVars
    /\ UNCHANGED otherVars

\* handleMessage, actions "add" and "save": the entry is fetched and parsed first
\* unless the action is "add", then one "save" call to the host
SaveMsg ==
    /\ BetweenSteps
    /\ \E add \in BOOLEAN, loadOk \in BOOLEAN, fetchOk \in BOOLEAN, saveOk \in BOOLEAN :
        LET s == getFullSettings(storage, ConfigureAnswer(loadOk, [autoSubmit |-> Undefined]), "o1")
            parsed == add \/ parseFieldsCompletes(fetchOk, [NoLogin EXCEPT !.fields = ParsedFields], s)
            call == Call("save", saveOk, "handler") IN
        /\ response' = IF ~parsed THEN Err(ErrFetch) ELSE HandlerResponse(call, "Unable to save password file")
        /\ hostCalls' = <<Call("configure", loadOk, "getFullSettings")>>
                        \o (IF add THEN <<>> ELSE <<Call("fetch", fetchOk, "handler")>>)
                        \o (IF parsed THEN <<call>> ELSE <<>>)
    /\ lastAction' = "save"
    /\ UNCHANGED <<storage, now, candidate, usageLog>>
    /\ pc' = "responded"
    /\ UNCHANGED flowVars
    /\ UNCHANGED otherVars

\* handleMessage, action "delete": the entry is fetched and parsed, then one
\* "delete" call to the host
DeleteMsg ==
    /\ BetweenSteps
    /\ \E loadOk \in BOOLEAN, fetchOk \in BOOLEAN, deleteOk \in BOOLEAN :
        LET s == getFullSettings(storage, ConfigureAnswer(loadOk, [autoSubmit |-> Undefined]), "o1")
            parsed == parseFieldsCompletes(fetchOk, [NoLogin EXCEPT !.fields = ParsedFields], s)
            call == Call("delete", deleteOk, "handler") IN
        /\ response' = IF ~parsed THEN Err(ErrFetch) ELSE HandlerResponse(call, "Unable to delete password file")
        /\ hostCalls' = <<Call("configure", loadOk, "getFullSettings"), Call("fetch", fetchOk, "handler")>>
                        \o (IF parsed THEN <<call>> ELSE <<>>)
    /\ lastAction' = "delete"
    /\ UNCHANGED <<storage, now, candidate, usageLog>>
    /\ pc' = "responded"
    /\ UNCHANGED flowVars
    /\ UNCHANGED otherVars

\* handleMessage, action "getSettings"
GetSettingsMsg ==
    /\ BetweenSteps
    /\ response' = Ok(<<>>)
    /\ \E loadOk \in BOOLEAN : hostCalls' = <<Call("configure", loadOk, "getFullSettings")>>
    /\ lastAction' = "getSettings"
    /\ UNCHANGED <<storage, now, candidate, usageLog>>
    /\ pc' = "responded"
    /\ UNCHANGED flowVars
    /\ UNCHANGED otherVars

Next ==
    \/ FillStart
    \/ InjectTop
    \/ InjectAll
    \/ Fill1
    \/ Fill2
    \/ Fill3
    \/ Fill4
    \/ Fill5
    \/ Fill6
    \/ Finish
    \/ FillRespond
    \/ FillFail
    \/ FillEnd
    \/ PrepareLogins
    \/ SaveSettingsMsg
    \/ ClearUsageDataMsg
    \/ CopyMsg
    \/ LaunchMsg
    \/ ListFilesMsg
    \/ ListDirsMsg
    \/ SaveMsg
    \/ DeleteMsg
    \/ GetSettingsMsg

Spec == Init /\ [][Next]_vars

\* ------------------------------------------------ authentication challenges
\* chrome.webRequest.onAuthRequired: a challenge arrives
AuthRequired ==
    /\ \E n \in Challenges, url \in Urls :
        /\ challenges[n].status = "none"
        /\ \A m \in 1..(n - 1) : challenges[m].status # "none"
        /\ LET older == {m \in 1..(n - 1) : challenges[m].status \in {"creating", "registered"} /\ challenges[m].resolved = "pending"} IN
           IF AuthRequestInProgress(currentAuthRequest)
           THEN challenges' = Resolve([challenges EXCEPT ![n].status = "dismissed", ![n].url = url, ![n].olderPending = older], n, "empty")
           ELSE challenges' = [challenges EXCEPT ![n].status = "creating", ![n].url = url, ![n].olderPending = older]
    /\ lastAction' = "authRequired"
    /\ UNCHANGED <<currentAuthRequest, clearAuthRequest>>
    /\ UNCHANGED <<storage, now, response, candidate, usageLog, hostCalls>>
    /\ UNCHANGED runVars

\* createAuthRequestModal after chrome.windows.create resolved:
\* currentAuthRequest = { resolve: callback, url, details, popup }
ModalCreated ==
    /\ \E n \in Challenges :
        /\ challenges[n].status = "creating"
        /\ challenges' = [challenges EXCEPT ![n].status = "registered", ![n].window = "open"]
        /\ currentAuthRequest' = n
    /\ lastAction' = "modalCreated"
    /\ UNCHANGED clearAuthRequest
    /\ UNCHANGED <<storage, now, response, candidate, usageLog, hostCalls>>
    /\ UNCHANGED runVars

\* createAuthRequestModal: chrome.windows.create rejects
ModalFails ==
    /\ \E n \in Challenges :
        /\ challenges[n].status = "creating"
        /\ challenges' = [challenges EXCEPT ![n].status = "failed"]
    /\ lastAction' = "modalFails"
    /\ UNCHANGED <<currentAuthRequest, clearAuthRequest>>
    /\ UNCHANGED <<storage, now, response, candidate, usageLog, hostCalls>>
    /\ UNCHANGED runVars

\* onPopupClose(windowId): the alarm is created when the closed window is the
\* popup of the current request
PopupClosed ==
    /\ \E n \in Challenges :
        /\ challenges[n].window = "open"
        /\ challenges' = [challenges EXCEPT ![n].window = "closed"]
        /\ clearAuthRequest' = (clearAuthRequest \/ currentAuthRequest = n)
    /\ lastAction' = "popupClosed"
    /\ UNCHANGED currentAuthRequest
    /\ UNCHANGED <<storage, now, response, candidate, usageLog, hostCalls>>
    /\ UNCHANGED runVars

\* chrome.alarms.onAlarm, alarm "clearAuthRequest"
ClearAuthRequestAlarm ==
    /\ clearAuthRequest
    /\ clearAuthRequest' = FALSE
    /\ LET r == IF currentAuthRequest # 0
                THEN resolveAuthRequest(currentAuthRequest, challenges, "cancel", challenges[currentAuthRequest].url)
                ELSE [current |-> currentAuthRequest, challenges |-> challenges] IN
       /\ currentAuthRequest' = r.current
       /\ challenges' = r.challenges
    /\ lastAction' = "alarm"
    /\ UNCHANGED <<storage, now, response, candidate, usageLog, hostCalls>>
    /\ UNCHANGED runVars

\* receiveMessage for a message "fill" sent from the popup of challenge w:
\* getFullSettings finds settings.authRequested, and handleMessage awaits
\* parseFields
AuthFillMsg ==
    /\ BetweenSteps
    /\ \E w \in Challenges, loadOk \in BOOLEAN :
        LET s == getFullSettings(storage, ConfigureAnswer(loadOk, [autoSubmit |-> Undefined]), "o1") IN
        /\ challenges[w].window = "open"
        /\ authRequested(currentAuthRequest, challenges, w)
        /\ settings' = [s EXCEPT !.tab = w, !.authRequested = TRUE]
        /\ login' = [NoLogin EXCEPT !.recent = candidate, !.fields = ParsedFields]
        /\ hostCalls' = <<Call("configure", loadOk, "getFullSettings")>>
    /\ response' = NoResponse
    /\ lastAction' = "authFill"
    /\ pc' = "parseFields"
    /\ UNCHANGED <<storage, now, candidate, usageLog, currentAuthRequest, challenges, clearAuthRequest>>
    /\ UNCHANGED <<fields, injectedAllFrames, allFrames, allowForeign, allowNoSecret, filledFields,
                   injections, attempts, asked, focus, error, injection>>
    /\ UNCHANGED parseVars
    /\ UNCHANGED restVars

\* handleMessage, action "fill" under settings.authRequested, after parseFields:
\* resolveAuthRequest with the login and the secret of the entry and the url of
\* the tab, saveRecent, sendResponse
AuthFillParsed ==
    /\ pc = "parseFields"
    /\ \E fetchOk \in BOOLEAN :
        LET calls == Append(hostCalls, Call("fetch", fetchOk, "handler"))
            r == resolveAuthRequest(currentAuthRequest, challenges, "credentials", challenges[settings.tab].url) IN
        IF parseFieldsCompletes(fetchOk, login, settings)
        THEN /\ currentAuthRequest' = r.current
             /\ challenges' = r.challenges
             /\ SaveRecentStep(settings, login, calls)
             /\ response' = Ok(<<>>)
        ELSE /\ response' = Err(ErrFetch)
             /\ hostCalls' = calls
             /\ UNCHANGED <<storage, usageLog, currentAuthRequest, challenges>>
    /\ lastAction' = "authFill"
    /\ pc' = "responded"
    /\ UNCHANGED <<now, candidate, clearAuthRequest>>
    /\ UNCHANGED flowVars

NextAuth ==
    \/ AuthRequired
    \/ ModalCreated
    \/ ModalFails
    \/ PopupClosed
    \/ ClearAuthRequestAlarm
    \/ AuthFillMsg
    \/ AuthFillParsed
    \/ FillEnd

\* the authentication challenges and the popups that answer them
SpecAuth == Init /\ [][NextAuth]_vars

\* ------------------------------------------------------- usage over time
\* Date.now() advances between two user actions
Tick ==
    /\ BetweenSteps
    /\ \E d \in {1, IgnoreInterval} :
        /\ (now + d) % IgnoreInterval <= MaxDrift
        /\ now + d <= MaxIntervals * IgnoreInterval + MaxDrift
        /\ now' = now + d
    /\ lastAction' = "tick"
    /\ UNCHANGED <<storage, response, candidate, usageLog, hostCalls>>
    /\ UNCHANGED runVars
    /\ UNCHANGED otherVars

NextRecent ==
    \/ Tick
    \/ PrepareLogins
    \/ CopyMsg
    \/ ClearUsageDataMsg
    \/ FillEnd

\* the uses of one credential over time
SpecRecent == Init /\ [][NextRecent]_vars

\* ------------------------------------------- injectScript, step by step
injVars == <<storage, now, settings, login, fields, injectedAllFrames, allFrames, allowForeign,
             allowNoSecret, filledFields, injections, attempts, asked, focus, error, response,
             candidate, usageLog, hostCalls, currentAuthRequest, challenges, clearAuthRequest,
             credential, parseOut, args, returned, badgeCache, updates, delivery, popup, flows, clipboard>>

\* fillFields calls injectScript: the promise is created, the timer set and
\* chrome.scripting.executeScript started
InjectBegin ==
    /\ pc \in {"injectTop", "injectAll"}
    /\ injection = NoInjection
    /\ injection' = InjectionStarted
    /\ lastAction' = "fill"
    /\ UNCHANGED pc
    /\ UNCHANGED injVars

\* executeScript fulfils: the executor runs on, clears the timer and resolves
ScriptCompletes ==
    /\ injection.script = "running"
    /\ injection' = ScriptCompleted(injection)
    /\ lastAction' = "fill"
    /\ UNCHANGED pc
    /\ UNCHANGED injVars

\* executeScript rejects: the async executor ends with the exception, which
\* neither clears the timer nor settles the promise
ScriptFails ==
    /\ injection.script = "running"
    /\ injection' = [injection EXCEPT !.script = "failed"]
    /\ lastAction' = "fill"
    /\ UNCHANGED pc
    /\ UNCHANGED injVars

\* MAX_WAIT has passed and the timer was not cleared: reject is called
TimerFires ==
    /\ injection.timer = "armed"
    /\ injection' = [injection EXCEPT !.timer = "fired", !.promise = TimeoutSettles(injection.promise)]
    /\ lastAction' = "fill"
    /\ UNCHANGED pc
    /\ UNCHANGED injVars

\* fillFields resumes after await injectScript(settings, false)
InjectTopSettled ==
    /\ pc = "injectTop"
    /\ injection.promise \in {"resolved", "rejected"}
    /\ injections' = Append(injections, [allFrames |-> FALSE, outcome |-> OutcomeOf(injection)])
    /\ pc' = TopInjectionNext(injectScript(OutcomeOf(injection)))
    /\ error' = IF injectScript(OutcomeOf(injection)) THEN error ELSE ErrInject
    /\ injection' = NoInjection
    /\ asked' = <<>>
    /\ lastAction' = "fill"
    /\ UNCHANGED <<storage, now, settings, login, fields, injectedAllFrames, allFrames,
                   allowForeign, allowNoSecret, filledFields, attempts, focus, response>>
    /\ UNCHANGED <<candidate, usageLog, hostCalls>>
    /\ UNCHANGED authVars
    /\ UNCHANGED parseVars
    /\ UNCHANGED restVars

\* fillFields resumes after await injectScript(settings, true)
InjectAllSettled ==
    /\ pc = "injectAll"
    /\ injection.promise \in {"resolved", "rejected"}
    /\ injections' = Append(injections, [allFrames |-> TRUE, outcome |-> OutcomeOf(injection)])
    /\ injectedAllFrames' = AllFramesInjected(injectScript(OutcomeOf(injection)))
    /\ injection' = NoInjection
    /\ allFrames' = FALSE
    /\ allowForeign' = FALSE
    /\ allowNoSecret' = InitialAllowNoSecret(fields)
    /\ filledFields' = <<>>
    /\ pc' = "fill1"
    /\ asked' = <<>>
    /\ lastAction' = "fill"
    /\ UNCHANGED <<storage, now, settings, login, fields, attempts, focus, error, response>>
    /\ UNCHANGED <<candidate, usageLog, hostCalls>>
    /\ UNCHANGED authVars
    /\ UNCHANGED parseVars
    /\ UNCHANGED restVars

NextInject ==
    \/ FillStart
    \/ InjectBegin
    \/ ScriptCompletes
    \/ ScriptFails
    \/ TimerFires
    \/ InjectTopSettled
    \/ InjectAllSettled
    \/ Fill1
    \/ Fill2
    \/ Fill3
    \/ Fill4
    \/ Fill5
    \/ Fill6
    \/ Finish
    \/ FillRespond
    \/ FillFail
    \/ FillEnd

\* the fill flow with the event loop running every callback that is due
SpecInject ==
    /\ Init
    /\ [][NextInject]_vars
    /\ WF_vars(InjectBegin)
    /\ WF_vars(TimerFires)
    /\ WF_vars(InjectTopSettled)
    /\ WF_vars(InjectAllSettled)

\* ------------------------------------------------- parseFields on a file
InitParse ==
    /\ InitProgram
    /\ credential \in [contents : Texts, username : DefaultUsernames]
    /\ parseOut = NoParse
    /\ args = NoArgs
    /\ returned = NoReturn

\* handleMessage: await parseFields(settings, message.login) on the fetched file
ParseFields ==
    /\ parseOut.status = "none"
    /\ \E fetchOk \in BOOLEAN :
        parseOut' = parseFields(fetchOk, credential.contents, credential.username)
    /\ UNCHANGED <<storage, now, response, lastAction, candidate, usageLog, hostCalls, credential>>
    /\ UNCHANGED <<pc, settings, login, fields, injectedAllFrames, allFrames, allowForeign,
                   allowNoSecret, filledFields, injections, attempts, asked, focus, error, injection>>
    /\ UNCHANGED authVars
    /\ UNCHANGED restVars

NextParse == ParseFields

\* parseFields over the credential files
SpecParse == InitParse /\ [][NextParse]_vars

\* ------------------------------------------------- helpers.getSetting
\* everything a helper call leaves alone: all but what it returns
helperFrame == <<storage, now, pc, settings, login, fields, injectedAllFrames, allFrames, allowForeign,
                 allowNoSecret, filledFields, injections, attempts, asked, focus, error, response,
                 lastAction, candidate, usageLog, hostCalls, currentAuthRequest, challenges,
                 clearAuthRequest, injection, credential, parseOut, args, badgeCache, updates, delivery, popup, flows, clipboard>>
NoHelperCall == credential = NoCredential /\ parseOut = NoParse /\ returned = NoReturn
Called == returned.status # "none"

\* the calls getSetting(key, login, settings): the entry defines autoSubmit or
\* not, the settings come from getFullSettings on a storage with or without a
\* saved autoSubmit, and "configure" answered with store settings or failed
SettingKeys == {"autoSubmit", "foreignFills"}
ConfigureAnswers == {ConfigureOk([autoSubmit |-> v]) : v \in Tri} \cup {ConfigureError}
SettingArgs(st) ==
    {[fn |-> "getSetting", key |-> key,
      login |-> [NoLogin EXCEPT !.settings = [autoSubmit |-> entry]],
      settings |-> getFullSettings(saved, answer, tabOrigin)] :
        key \in SettingKeys, entry \in Tri,
        saved \in {st, saveSettingsWrites(st, [autoSubmit |-> "true", foreignFills |-> EmptyForeignFills])},
        answer \in ConfigureAnswers, tabOrigin \in Origins}

InitSetting ==
    /\ InitProgram
    /\ NoHelperCall
    /\ args \in SettingArgs(storage)

GetSetting ==
    /\ args.fn = "getSetting"
    /\ ~Called
    /\ returned' = IF getSettingThrows(args.key, args.login, args.settings) THEN Threw
                   ELSE Returned(getSetting(args.key, args.login, args.settings))
    /\ UNCHANGED helperFrame

NextSetting == GetSetting

\* getSetting over the settings objects of getFullSettings
SpecSetting == InitSetting /\ [][NextSetting]_vars

\* ------------------------------------- helpers.pathToInfo, prepareLogin
\* A hostname is the sequence of its labels; a path segment is a hostname with
\* or without a port, or a name that holds an "@".
MaxSegments == 3
Hostnames == {<<"localhost">>, <<"github", "com">>, <<"login", "github", "com">>,
              <<"pi", "hole">>, <<"login", "pi", "hole">>, <<"entry">>}
Ports == {"", "8080"}
KnownSuffixes == {"com"}
Segments == [at : {FALSE}, hostname : Hostnames, port : Ports]
            \cup [at : {TRUE}, hostname : Hostnames, port : {""}]
Paths(length) == UNION {[1..n -> Segments] : n \in 1..length}
CurrentHosts == [hostname : Hostnames, port : Ports]

\* BrowserpassURL.parseHost of a segment: hostname, port, and whether it is a
\* valid domain under a well-known suffix
parseHost(segment) ==
    [hostname |-> segment.hostname, port |-> segment.port,
     validDomain |-> Len(segment.hostname) >= 2 /\ segment.hostname[Len(segment.hostname)] \in KnownSuffixes]

\* host.endsWith(`.${suffix}`)
EndsWithDotted(host, suffix) ==
    Len(host) > Len(suffix) /\ SubSeq(host, Len(host) - Len(suffix) + 1, Len(host)) = suffix

\* the segments are taken in the order of the path
Reversed_Not(parts) == parts

\* path.split(/\//).reverse()
Reversed(parts) == [i \in 1..Len(parts) |-> parts[Len(parts) + 1 - i]]

\* the condition under which pathToInfo returns the info of a part
IsDomainComponent(info, currentHost) ==
    \/ info.validDomain
    \/ currentHost.hostname = info.hostname
    \/ EndsWithDotted(currentHost.hostname, info.hostname)

NullInfo == [null |-> TRUE, hostname |-> <<>>, port |-> "", validDomain |-> FALSE]
Info(i) == [null |-> FALSE, hostname |-> i.hostname, port |-> i.port, validDomain |-> i.validDomain]

\* for (var key in parts): the first part without "@" that is a domain component
RECURSIVE FirstComponent(_, _)
FirstComponent(parts, currentHost) ==
    IF parts = <<>> THEN NullInfo
    ELSE IF Head(parts).at THEN FirstComponent(Tail(parts), currentHost)
    ELSE IF IsDomainComponent(parseHost(Head(parts)), currentHost) THEN Info(parseHost(Head(parts)))
    ELSE FirstComponent(Tail(parts), currentHost)
pathToInfo(path, currentHost) == FirstComponent(Reversed(path), currentHost)

\* the port of the entry is not compared
PortDiffers_Never(pathInfo, origin) == FALSE

\* pathInfo.port && pathInfo.port !== origin.port
PortDiffers(pathInfo, origin) == pathInfo.port # "" /\ pathInfo.port # origin.port

\* prepareLogin: login.host and login.inCurrentHost
prepareLogin(path, origin) ==
    LET pathInfo == pathToInfo(path, origin) IN
    IF pathInfo.null THEN [host |-> NullInfo, inCurrentHost |-> FALSE]
    ELSE [host |-> pathInfo,
          inCurrentHost |->
              /\ \/ origin.hostname = pathInfo.hostname
                 \/ Len(pathInfo.hostname) >= 2 /\ EndsWithDotted(origin.hostname, pathInfo.hostname)
              /\ ~PortDiffers(pathInfo, origin)]

InitHost ==
    /\ InitProgram
    /\ NoHelperCall
    /\ args \in [fn : {"pathToInfo", "prepareLogin"}, path : Paths(MaxSegments), currentHost : CurrentHosts]

PathToInfo ==
    /\ args.fn = "pathToInfo"
    /\ ~Called
    /\ returned' = Returned(pathToInfo(args.path, args.currentHost))
    /\ UNCHANGED helperFrame

PrepareLogin ==
    /\ args.fn = "prepareLogin"
    /\ ~Called
    /\ returned' = Returned(prepareLogin(args.path, args.currentHost))
    /\ UNCHANGED helperFrame

NextHost == PathToInfo \/ PrepareLogin

\* pathToInfo and prepareLogin over the paths of a store
SpecHost == InitHost /\ [][NextHost]_vars

\* ------------------------------------------- helpers.filterSortLogins
\* A login name and a search query are sequences of characters; a candidate
\* is what prepareLogin made of a file: index, login, inCurrentHost, recent.
MaxLogins == 3
Names == {<<"a">>, <<"a", ".", "b">>, <<"b", "C">>}
Recents == {NoRecent, [when |-> 1, count |-> 1], [when |-> 2, count |-> 1], [when |-> 1, count |-> 2]}
Queries == {<<>>, <<" ", "a">>, <<" ", "b", " ", "c">>, <<"a", " ", "b">>}
LoginLists(length) ==
    UNION {{[i \in 1..n |-> [index |-> i, login |-> shape[i].login,
                              inCurrentHost |-> shape[i].inCurrentHost, recent |-> shape[i].recent]] :
                shape \in [1..n -> [login : Names, inCurrentHost : BOOLEAN, recent : Recents]]} :
           n \in 0..length}

\* the most recently used login: the first of the logins with a use count
\* whose time is greater than that of all before it; 0 for null
RECURSIVE MostRecent(_, _, _)
MostRecent(s, best, bestWhen) ==
    IF s = <<>> THEN best
    ELSE IF Head(s).recent.count > 0 /\ (best = 0 \/ Head(s).recent.when > bestWhen)
         THEN MostRecent(Tail(s), Head(s).index, Head(s).recent.when)
    ELSE MostRecent(Tail(s), best, bestWhen)

\* (login.match(/\./g) || []).length
Dots(name) == Cardinality({i \in DOMAIN name : name[i] = "."})

\* a.localeCompare(b) < 0 on the names of the model, which differ in a letter
\* or are a prefix of one another
CharRank(c) == IF c = "." THEN 1 ELSE IF c = "a" THEN 2 ELSE IF c = "b" THEN 3 ELSE 4
RECURSIVE ComesBefore(_, _)
ComesBefore(x, y) ==
    IF y = <<>> THEN FALSE
    ELSE IF x = <<>> THEN TRUE
    ELSE IF Head(x) # Head(y) THEN CharRank(Head(x)) < CharRank(Head(y))
    ELSE ComesBefore(Tail(x), Tail(y))

\* the names of the logins are not compared
Negative_NoNames(a, b, mostRecent, currentDomainOnly) ==
    IF mostRecent # 0 /\ a.index = mostRecent THEN TRUE
    ELSE IF mostRecent # 0 /\ b.index = mostRecent THEN FALSE
    ELSE IF b.recent.count # a.recent.count THEN b.recent.count < a.recent.count
    ELSE currentDomainOnly /\ Dots(b.login) < Dots(a.login)

\* the most recent login is not put first
Negative_NoMostRecent(a, b, mostRecent, currentDomainOnly) ==
    IF b.recent.count # a.recent.count THEN b.recent.count < a.recent.count
    ELSE IF currentDomainOnly /\ Dots(b.login) # Dots(a.login) THEN Dots(b.login) < Dots(a.login)
    ELSE ComesBefore(a.login, b.login)

\* the compare function of candidates.sort returns a negative number
Negative(a, b, mostRecent, currentDomainOnly) ==
    IF a.index = mostRecent THEN TRUE
    ELSE IF b.index = mostRecent THEN FALSE
    ELSE IF b.recent.count # a.recent.count THEN b.recent.count < a.recent.count
    ELSE IF currentDomainOnly /\ Dots(b.login) # Dots(a.login) THEN Dots(b.login) < Dots(a.login)
    ELSE ComesBefore(a.login, b.login)

\* Array.prototype.sort, which is stable: x goes behind every element that
\* does not come after it
RECURSIVE Insert(_, _, _, _)
Insert(sorted, x, mostRecent, currentDomainOnly) ==
    IF sorted = <<>> THEN <<x>>
    ELSE IF Negative(x, Head(sorted), mostRecent, currentDomainOnly) THEN <<x>> \o sorted
    ELSE <<Head(sorted)>> \o Insert(Tail(sorted), x, mostRecent, currentDomainOnly)
RECURSIVE Sorted(_, _, _)
Sorted(s, mostRecent, currentDomainOnly) ==
    IF s = <<>> THEN <<>>
    ELSE Insert(Sorted(SubSeq(s, 1, Len(s) - 1), mostRecent, currentDomainOnly), s[Len(s)],
                mostRecent, currentDomainOnly)

\* searchQuery.split(/\s+/) of the trimmed query
RECURSIVE Split(_, _)
Split(s, word) ==
    IF s = <<>> THEN (IF word = <<>> THEN <<>> ELSE <<word>>)
    ELSE IF Head(s) = " " THEN (IF word = <<>> THEN <<>> ELSE <<word>>) \o Split(Tail(s), <<>>)
    ELSE Split(Tail(s), Append(word, Head(s)))

\* the login is searched as it is written
IndexOfWord_CaseSensitive(name, word) ==
    \E i \in 0..(Len(name) - Len(word)) : SubSeq(name, i + 1, i + Len(word)) = word

\* c.login.toLowerCase().indexOf(word) >= 0
IndexOfWord(name, word) ==
    \E i \in 0..(Len(name) - Len(word)) : SubSeq(toLowerCase(name), i + 1, i + Len(word)) = word

RECURSIVE SubstringFiltered(_, _)
SubstringFiltered(candidates, words) ==
    IF words = <<>> THEN candidates
    ELSE SubstringFiltered(SelectSeq(candidates, LAMBDA c : IndexOfWord(c.login, toLowerCase(Head(words)))),
                           Tail(words))

\* FuzzySort.go(fuzzyFilter, candidates, ...): the candidates whose login holds
\* the characters of the word in their order, the shorter login first
RECURSIVE IsSubsequence(_, _)
IsSubsequence(word, name) ==
    IF word = <<>> THEN TRUE
    ELSE IF name = <<>> THEN FALSE
    ELSE IF Head(word) = Head(name) THEN IsSubsequence(Tail(word), Tail(name))
    ELSE IsSubsequence(word, Tail(name))
FuzzyHit(word, c) == IsSubsequence(toLowerCase(word), toLowerCase(c.login))
RECURSIVE ByScore(_, _)
ByScore(s, len) ==
    IF len > 3 THEN <<>>
    ELSE SelectSeq(s, LAMBDA c : Len(c.login) = len) \o ByScore(s, len + 1)
FuzzySortGo(word, candidates) == ByScore(SelectSeq(candidates, LAMBDA c : FuzzyHit(word, c)), 1)

\* every login is kept
WorkingSet_All(logins, currentDomainOnly) == logins

\* if (currentDomainOnly): recent.concat(remainingInCurrentDomain)
WorkingSet(logins, currentDomainOnly) ==
    IF currentDomainOnly
    THEN SelectSeq(logins, LAMBDA c : c.recent.count > 0)
         \o SelectSeq(logins, LAMBDA c : c.inCurrentHost /\ c.recent.count = 0)
    ELSE logins

\* filterSortLogins, without the path, display and highlighting it attaches
filterSortLogins(logins, searchQuery, currentDomainOnly) ==
    LET fuzzyFirstWord == searchQuery = <<>> \/ Head(searchQuery) # " "
        query == trim(searchQuery)
        mostRecent == IF currentDomainOnly THEN MostRecent(logins, 0, 0) ELSE 0
        candidates == WorkingSet(logins, currentDomainOnly)
        ranked == Sorted(candidates, mostRecent, currentDomainOnly)
        words == Split(query, <<>>)
        substringFilters == IF fuzzyFirstWord THEN Tail(words) ELSE words
        filtered == SubstringFiltered(ranked, substringFilters)
    IN  IF query = <<>> THEN ranked
        ELSE IF fuzzyFirstWord THEN FuzzySortGo(Head(words), filtered)
        ELSE filtered

InitRank ==
    /\ InitProgram
    /\ NoHelperCall
    /\ args \in [fn : {"filterSortLogins"}, logins : LoginLists(MaxLogins), searchQuery : Queries,
                 currentDomainOnly : BOOLEAN]

\* the popup ranks the logins
FilterSortLogins ==
    /\ args.fn = "filterSortLogins"
    /\ ~Called
    /\ returned' = Returned([out |-> filterSortLogins(args.logins, args.searchQuery, args.currentDomainOnly),
                             again |-> <<>>])
    /\ UNCHANGED helperFrame

\* the popup ranks what the ranking returned, with the same query and flag
FilterSortOutput ==
    /\ args.fn = "filterSortLogins"
    /\ returned.status = "returned"
    /\ returned' = [status |-> "rerun",
                    value |-> [out |-> returned.value.out,
                               again |-> filterSortLogins(returned.value.out, args.searchQuery,
                                                          args.currentDomainOnly)]]
    /\ UNCHANGED helperFrame

NextRank == FilterSortLogins \/ FilterSortOutput

\* filterSortLogins over the lists of logins
SpecRank == InitRank /\ [][NextRank]_vars

\* ------------------------------------------------------------------- claims
important == importantFieldToFill(fields)
Tuple(a) == <<a.allFrames, a.allowForeign, a.allowNoSecret>>
NoDuplicates(q) == \A i, j \in DOMAIN q : q[i] = q[j] => i = j
TopInjectionFailed == Len(injections) >= 1 /\ injections[1].outcome # "intime"
AllInjectionFailed == Len(injections) = 2 /\ injections[1].outcome = "intime" /\ injections[2].outcome # "intime"
AllReturnedNothing == attempts # <<>> /\ \A i \in DOMAIN attempts : attempts[i].returned /\ attempts[i].filledFields = <<>>

\* C1: whenever a run succeeds, the focus-or-submit instruction has the
\* (allFrames, allowForeign) pair of a fill attempt that returned filled fields
C1_FocusSameAsFill ==
    pc = "filled" =>
        \E i \in DOMAIN attempts :
            /\ attempts[i].filledFields # <<>>
            /\ attempts[i].allFrames = focus[1].allFrames
            /\ attempts[i].allowForeign = focus[1].allowForeign

\* C2: the list fillFields returns and passes to focus-or-submit holds every
\* field name at most once
C2_FilledListDeduplicated ==
    pc = "filled" => NoDuplicates(filledFields) /\ NoDuplicates(focus[1].filledFields)

\* C3: the fill attempts of a run are an order-preserving subsequence of
\* (top,no-foreign,strict), (all,no-foreign,strict), (all,foreign,strict),
\* (top,no-foreign,relaxed), (all,no-foreign,relaxed), (all,foreign,relaxed):
\* no tuple twice, a foreign attempt only after a same-origin all-frames attempt
\* with the same allowNoSecret, at most six attempts
Escalation == << <<FALSE, FALSE, FALSE>>, <<TRUE, FALSE, FALSE>>, <<TRUE, TRUE, FALSE>>,
                 <<FALSE, FALSE, TRUE>>, <<TRUE, FALSE, TRUE>>, <<TRUE, TRUE, TRUE>> >>
Rank(a) == IF \E k \in 1..6 : Escalation[k] = Tuple(a) THEN CHOOSE k \in 1..6 : Escalation[k] = Tuple(a) ELSE 0
C3_EscalationOrder ==
    /\ Len(attempts) <= 6
    /\ \A i \in DOMAIN attempts : Rank(attempts[i]) # 0
    /\ \A i, j \in DOMAIN attempts : i < j => Rank(attempts[i]) < Rank(attempts[j])
    /\ \A j \in DOMAIN attempts : attempts[j].allowForeign =>
          \E i \in 1..(j - 1) : Tuple(attempts[i]) = <<TRUE, FALSE, attempts[j].allowNoSecret>>
C3_Witness == Len(attempts) = 6 /\ pc = "finish"

\* C4: once an attempt has filled the important field no further fill
\* instruction is dispatched in the run: an attempt that returned the important
\* field is the last attempt of the run
C4_NoFillAfterImportant ==
    \A i \in DOMAIN attempts : Includes(attempts[i].filledFields, important) => i = Len(attempts)
C4_Witness ==
    /\ pc = "filled"
    /\ Len(attempts) = 2
    /\ Tuple(attempts[2]) = <<TRUE, FALSE, FALSE>>
    /\ Includes(attempts[2].filledFields, "secret")
    /\ NotFalse(settings.foreignFills[settings.origin])

\* C5: no fill instruction has allowForeign=true while the policy of the current
\* origin is false, and every fill and focus request carries as foreignFills the
\* policy map of the current origin at dispatch time, empty when there is none
CarriesPolicy(r) == r.foreignFills = (IF r.policy.kind = "map" THEN r.policy.map ELSE [f \in ForeignOrigins |-> Undefined])
C5_PolicyRespected ==
    /\ \A i \in DOMAIN attempts : attempts[i].allowForeign => attempts[i].policy.kind # "false"
    /\ \A i \in DOMAIN attempts : CarriesPolicy(attempts[i])
    /\ \A i \in DOMAIN focus : CarriesPolicy(focus[i])
C5_Witness ==
    /\ pc = "failed"
    /\ error = ErrNoForms(fields)
    /\ injectedAllFrames
    /\ settings.foreignFills[settings.origin].kind = "false"
    /\ Len(attempts) = 4

\* C6: when a frame's response carries a confirmation decision (foreignFill,
\* foreignOrigin), then when dispatchFill returns the policy holds
\* foreignFills[origin][foreignOrigin] = foreignFill and has been saved
LastAnswerFor(k) == \A m \in DOMAIN asked : asked[m].foreignOrigin = asked[k].foreignOrigin => m <= k
C6_DecisionPersisted ==
    \A k \in DOMAIN asked : LastAnswerFor(k) =>
        /\ settings.foreignFills[settings.origin].kind = "map"
        /\ settings.foreignFills[settings.origin].map[asked[k].foreignOrigin] = asked[k].foreignFill
        /\ storage["foreignFills"].present
        /\ storage["foreignFills"].value = settings.foreignFills

\* C7: if injecting into the top frame fails, fillFields fails with an error and
\* no fill instruction, no focus-or-submit instruction and no all-frames
\* injection is issued in the run
C7_TopInjectionFatal ==
    TopInjectionFailed =>
        /\ pc \in {"failed", "responded"}
        /\ error = ErrInject
        /\ Len(injections) = 1
        /\ attempts = <<>>
        /\ focus = <<>>
C7_Witness == TopInjectionFailed /\ pc = "responded" /\ response.status = "error"

\* C8: if the all-frames injection fails after the top-frame injection
\* succeeded, the run goes on and every fill instruction and the focus-or-submit
\* instruction go to the top frame only, with allowForeign=false
C8_TopFrameOnly ==
    AllInjectionFailed =>
        /\ error # ErrInject
        /\ pc \in {"fill2", "fill3", "relax", "fill5", "fill6", "finish", "filled", "failed", "responded"} => attempts # <<>>
        /\ \A i \in DOMAIN attempts : ~attempts[i].allFrames /\ ~attempts[i].allowForeign
        /\ \A i \in DOMAIN focus : ~focus[i].allFrames /\ ~focus[i].allowForeign
C8_Witness == AllInjectionFailed /\ pc = "filled" /\ Len(attempts) = 2 /\ focus # <<>>

\* C9: fillFields raises the "No fillable forms" error, naming the requested
\* fields, exactly when every attempt it made returned no filled field; then no
\* focus-or-submit instruction is dispatched; a run that returns, returns a
\* non-empty list
C9_NoFormsError ==
    /\ error = ErrNoForms(fields) => pc \in {"failed", "responded"} /\ AllReturnedNothing /\ focus = <<>>
    /\ pc \in {"failed", "filled"} /\ AllReturnedNothing => pc = "failed" /\ error = ErrNoForms(fields)
    /\ pc = "filled" => filledFields # <<>> /\ focus # <<>> /\ error = NoError
C9_Witness == pc = "failed" /\ error = ErrNoForms(<<"login", "secret">>) /\ Len(attempts) = 6

\* C10 as claimed: the persisted foreign-fill policy changes only by a fill
\* attempt that returned a confirmation decision
C10_OnlyFillChangesPolicy ==
    [][storage["foreignFills"]' # storage["foreignFills"] => (lastAction' = "fill" /\ asked' # <<>>)]_vars

\* C10 as amended: the persisted foreign-fill policy changes only by saveSettings
\* (the saveSettings message, or the save dispatchFill makes after a
\* confirmation decision) and by clearUsageData, which removes it; copy, launch,
\* list and getSettings never change it
C10_PolicyChangedOnlyBySaveOrClear ==
    [][storage["foreignFills"]' # storage["foreignFills"] =>
          \/ lastAction' \in {"saveSettings", "clearUsageData"}
          \/ (lastAction' = "fill" /\ asked' # <<>>)]_vars
C10_Witness ==
    /\ lastAction = "copy"
    /\ response.status = "ok"
    /\ storage["recent"].present
    /\ storage["foreignFills"].present
    /\ storage["foreignFills"].value["o1"].kind = "map"

\* C11: saveRecent on a credential (login.recent, the record the login object
\* carries) whose previous use is at most 60 seconds old sets its timestamp to the
\* current time and leaves its count unchanged; when the previous use is more
\* than 60 seconds old, or there is none, it increases the count by exactly 1;
\* the stored count of the credential never decreases by a use
StoredRecent(st) == IF st["recent"].present THEN (IF st["recent"].value[<<"o1", "l1">>].present THEN st["recent"].value[<<"o1", "l1">>].rec ELSE NoRecent) ELSE NoRecent
UseStep == pc = "idle" /\ lastAction' = "copy" /\ response'.status = "ok"
C11_Debounce ==
    [][UseStep =>
          /\ storage'["recent"].present
          /\ storage'["recent"].value[<<"o1", "l1">>].present
          /\ StoredRecent(storage').when = now
          /\ storage'["recent:s1"] = Stored(now)
          /\ (now <= candidate.when + IgnoreInterval => StoredRecent(storage').count = candidate.count)
          /\ (now > candidate.when + IgnoreInterval => StoredRecent(storage').count = candidate.count + 1)
          /\ StoredRecent(storage').count >= StoredRecent(storage).count]_vars
C11_Witness ==
    /\ lastAction = "copy"
    /\ response.status = "ok"
    /\ candidate.count >= 1
    /\ candidate.when < now
    /\ now <= candidate.when + IgnoreInterval
    /\ StoredRecent(storage) = [when |-> now, count |-> candidate.count]

\* C12: no value written to extension storage or to the usage log holds the
\* secret or the OTP seed of a parsed credential: not the settings keys, not the
\* keys or records of the recent map, not the per-store timestamp, not a log row
NoSecret(v) == v \notin SecretValues
C12_NoSecretPersisted ==
    /\ \A i \in DOMAIN usageLog : NoSecret(usageLog[i].host) /\ NoSecret(usageLog[i].login) /\ usageLog[i].time \in Nat
    /\ storage["autoSubmit"].present => NoSecret(storage["autoSubmit"].value)
    /\ storage["recent:s1"].present => storage["recent:s1"].value \in Nat
    /\ storage["recent"].present =>
          \A k \in DOMAIN storage["recent"].value :
              /\ NoSecret(k[1]) /\ NoSecret(k[2])
              /\ DOMAIN storage["recent"].value[k].rec = {"when", "count"}
              /\ storage["recent"].value[k].rec.when \in Nat
              /\ storage["recent"].value[k].rec.count \in Nat
    /\ storage["foreignFills"].present =>
          \A o \in DOMAIN storage["foreignFills"].value :
              /\ NoSecret(o)
              /\ \A f \in DOMAIN storage["foreignFills"].value[o].map :
                    NoSecret(f) /\ NoSecret(storage["foreignFills"].value[o].map[f])
C12_Witness ==
    /\ pc = "responded"
    /\ response.status = "ok"
    /\ login.fields.secret \in SecretValues
    /\ usageLog # <<>>
    /\ storage["recent"].present
    /\ storage["foreignFills"].present

\* C13 as claimed: whenever a helper-process call made while serving a message
\* returns a status other than "ok", the message is answered with an error
HostCallFailed(calls) == \E i \in DOMAIN calls : calls[i].status # "ok"
C13_AnyHostFailureIsError ==
    (pc = "responded" /\ HostCallFailed(hostCalls)) => response.status = "error"

\* C13 as amended: whenever a helper-process call that the handler of the message
\* makes itself (list, tree, fetch, save, delete, the configure call of the
\* saveSettings message) returns a status other than "ok", the message is
\* answered with an error response, nothing is written, no script is injected,
\* and the failed call is the last call made for the message
FailedHandlerCall(c) == c.by = "handler" /\ c.status # "ok"
HandlerCallFailed(calls) == \E i \in DOMAIN calls : FailedHandlerCall(calls[i])
C13_HandlerCallFailureIsError ==
    [][(pc = "idle" /\ HandlerCallFailed(hostCalls')) =>
          /\ pc' = "responded"
          /\ response'.status = "error"
          /\ storage' = storage
          /\ usageLog' = usageLog
          /\ injections' = <<>> /\ attempts' = <<>> /\ focus' = <<>>
          /\ FailedHandlerCall(hostCalls'[Len(hostCalls')])
          /\ \A i \in 1..(Len(hostCalls') - 1) : ~FailedHandlerCall(hostCalls'[i])]_vars
C13_Witness ==
    /\ pc = "responded"
    /\ lastAction = "listFiles"
    /\ hostCalls = <<Call("configure", TRUE, "getFullSettings"), Call("list", FALSE, "handler")>>
    /\ response.status = "error"

\* C14 as claimed: when a challenge arrives while an earlier one is still
\* pending, the newer one becomes the current request (it is not answered on
\* arrival) and the resolver of the older one is never invoked afterwards
C14_NewerSupersedes ==
    \A n \in Challenges : \A m \in challenges[n].olderPending :
        /\ challenges[n].status # "dismissed"
        /\ challenges[m].resolved = "pending"

\* C14 as amended: a challenge that arrives while an earlier one is the current
\* request is answered at once with an empty response and the earlier one stays
\* current; a challenge that arrives while none is current gets a popup, the
\* challenge whose popup is created last is the current request, and the resolver
\* of a challenge that was replaced as current request while pending is never
\* invoked afterwards
Replaced(ch, cur, m) == ch[m].status = "registered" /\ ch[m].resolved = "pending" /\ cur # m
C14_BusyDismissesNewer ==
    [][/\ \A n \in Challenges :
            (challenges[n].status = "none" /\ challenges'[n].status # "none") =>
                IF currentAuthRequest # 0
                THEN /\ challenges'[n].status = "dismissed"
                     /\ challenges'[n].resolved = "empty"
                     /\ currentAuthRequest' = currentAuthRequest
                     /\ \A m \in Challenges \ {n} : challenges'[m] = challenges[m]
                ELSE /\ challenges'[n].status = "creating"
                     /\ challenges'[n].resolved = "pending"
       /\ \A n \in Challenges :
            (challenges[n].status = "creating" /\ challenges'[n].status = "registered") => currentAuthRequest' = n
       /\ \A m \in Challenges :
            Replaced(challenges, currentAuthRequest, m) => Replaced(challenges', currentAuthRequest', m)]_vars
C14_Witness ==
    \E m \in Challenges :
        /\ Replaced(challenges, currentAuthRequest, m)
        /\ challenges[m].olderPending # {}
        /\ currentAuthRequest \in challenges[m].olderPending

\* C15: every injectScript call settles. A timer that fired has rejected the
\* promise (the script had not completed by then: it was still running, had
\* failed, or never completes), fillFields takes a rejected call as a failed
\* injection, and fillFields leaves each of its two injection points.
InjectionPoints == {"injectTop", "injectAll"}
ReportedFailed == IF pc = "injectTop" THEN pc' = "failed" /\ error' = ErrInject
                  ELSE ~injectedAllFrames'
C15_InjectionSettles ==
    /\ [](injection.timer = "fired" => injection.promise = "rejected")
    /\ [][(pc \in InjectionPoints /\ pc' # pc /\ injection.promise = "rejected") => ReportedFailed]_vars
    /\ \A point \in InjectionPoints : (pc = point) ~> (pc # point)

\* the all-frames injection never completed, the timer settled it and the fill
\* went on in the top frame
C15_Witness ==
    /\ pc = "fill1"
    /\ Len(injections) = 2
    /\ injections[2].outcome \in {"never", "fails"}
    /\ ~injectedAllFrames
    /\ injection = NoInjection

\* ---------------------------------------------- the credential text, read
\* as the claims read it: the key of a line is what stands before its first
\* colon, its value what stands after, both trimmed
TextLines == credential.contents
HasColon(line) == \E i \in 1..Len(line) : line[i] = ":"
FirstColon(line) == CHOOSE i \in 1..Len(line) : line[i] = ":" /\ \A j \in 1..(i - 1) : line[j] # ":"
KeyOf(line) == trim(SubSeq(line, 1, FirstColon(line) - 1))
ValueOf(line) == trim(SubSeq(line, FirstColon(line) + 1, Len(line)))
IsBlank(line) == \A i \in 1..Len(line) : line[i] = " "
HasAliasKey(line, group) == HasColon(line) /\ \E a \in fieldsPrefix[group] : toLowerCase(KeyOf(line)) = <<a>>
Acceptable(line, group) == ValueOf(line) # <<>> \/ group = "login"
MatchesOf(group) == {i \in DOMAIN TextLines : HasAliasKey(TextLines[i], group) /\ Acceptable(TextLines[i], group)}
First(S) == CHOOSE i \in S : \A j \in S : i <= j
ValueGiven(line) == IF ValueOf(line) = <<>> THEN Undef ELSE Str(ValueOf(line))
Fallback == Str(<<IF credential.username # Undefined THEN credential.username ELSE "l1">>)
Parsed == parseOut.status = "ok"

\* C16: when parseFields returns, the secret is the trimmed value of the first
\* line whose key is a secret alias and whose value is not empty; without such
\* a line it is the first non-blank line as it stands (and there is no secret
\* when every line is blank).
C16_ParsedSecret ==
    Parsed =>
        LET nonBlank == {i \in DOMAIN TextLines : ~IsBlank(TextLines[i])}
        IN  IF MatchesOf("secret") # {}
            THEN parseOut.fields.secret = Str(ValueOf(TextLines[First(MatchesOf("secret"))]))
            ELSE IF nonBlank # {} THEN parseOut.fields.secret = Str(TextLines[First(nonBlank)])
            ELSE parseOut.fields.secret = Deleted

\* the secret comes from the second line, whose value stands between blanks,
\* and not from the first non-blank line
C16_Witness ==
    /\ Parsed
    /\ Len(TextLines) = 2
    /\ ~IsBlank(TextLines[1])
    /\ MatchesOf("secret") = {2}
    /\ Str(ValueOf(TextLines[2])) = parseOut.fields.secret
    /\ \E i \in DOMAIN TextLines[2] : TextLines[2][i] = ":" /\ i < Len(TextLines[2]) /\ TextLines[2][i + 1] = " "

\* C17: after a successful fetch parseFields raises no error, whatever the
\* lines of the text are (no text of the model holds an otp field).
C17_NeverRaises == parseOut.status # "threw"

\* C18: in each field group the first line with an alias key and an acceptable
\* value gives the field its value.
C18_FirstMatchWins ==
    Parsed =>
        \A group \in DOMAIN fieldsPrefix :
            MatchesOf(group) # {} =>
                parseOut.fields[group] = ValueGiven(TextLines[First(MatchesOf(group))])

\* C19: without a line whose key is a login alias the login is the default
\* username or else the last segment of the entry name; with such a line it is
\* what a login line gives; openid, otp and url do not exist when unmatched.
C19_LoginFallback ==
    Parsed =>
        /\ IF \E i \in DOMAIN TextLines : HasAliasKey(TextLines[i], "login")
           THEN \E i \in DOMAIN TextLines : /\ HasAliasKey(TextLines[i], "login")
                                            /\ parseOut.fields.login = ValueGiven(TextLines[i])
           ELSE parseOut.fields.login = Fallback
        /\ \A group \in {"openid", "otp", "url"} :
               MatchesOf(group) = {} => parseOut.fields[group] = Deleted

\* C20: a line without a colon, or with nothing but blanks before its first
\* colon, assigns no field and no setting (and raises nothing).
Keyless(line) == ~HasColon(line) \/ KeyOf(line) = <<>>
C20_KeylessLineAssignsNothing ==
    \A i \in DOMAIN parseOut.log :
        Keyless(NonBlank(TextLines)[i]) => parseOut.log[i] = "none"

\* ------------------------------------------------------------- getSetting
Defines(obj, key) == key \in DOMAIN obj /\ obj[key] # Undefined
StoreOf(a) == a.settings.stores[a.login.store]
ExpectedSetting ==
    IF Defines(args.login.settings, args.key) THEN args.login.settings[args.key]
    ELSE IF StoreOf(args).hasSettings /\ Defines(StoreOf(args).settings, args.key)
         THEN StoreOf(args).settings[args.key]
    ELSE args.settings[args.key]

\* C21: getSetting returns the value of the entry when the entry defines the
\* key, else that of the store when the store defines it, else the global one.
C21_Precedence ==
    (args.fn = "getSetting" /\ Called) =>
        (returned.status = "returned" /\ returned.value = ExpectedSetting)

\* C22: getSetting raises no error, whatever the key, the entry and the
\* settings object of getFullSettings are.
C22_NeverFails == args.fn = "getSetting" => returned.status # "threw"

\* --------------------------------------------------- pathToInfo, prepareLogin
\* a segment is accepted: no "@", and a valid domain, the current hostname, or
\* a dotted suffix of the current hostname
Accepted(segment, currentHost) ==
    /\ ~segment.at
    /\ \/ Len(segment.hostname) >= 2 /\ segment.hostname[Len(segment.hostname)] \in KnownSuffixes
       \/ segment.hostname = currentHost.hostname
       \/ \E n \in 1..(Len(currentHost.hostname) - 1) :
              segment.hostname = SubSeq(currentHost.hostname, n + 1, Len(currentHost.hostname))
AcceptedAt == {i \in DOMAIN args.path : Accepted(args.path[i], args.currentHost)}
Deepest == args.path[CHOOSE i \in AcceptedAt : \A j \in AcceptedAt : j <= i]

\* C23: pathToInfo returns the deepest accepted segment of the path, and null
\* exactly when no segment is accepted.
C23_DeepestAccepted ==
    (args.fn = "pathToInfo" /\ Called) =>
        IF AcceptedAt = {} THEN returned.value.null
        ELSE /\ ~returned.value.null
             /\ returned.value.hostname = Deepest.hostname
             /\ returned.value.port = Deepest.port

\* a shallower segment is accepted too, and one with "@" lies deeper still
C23_Witness ==
    /\ args.fn = "pathToInfo" /\ Called
    /\ Len(args.path) = 3
    /\ AcceptedAt = {1, 2}
    /\ args.path[3].at
    /\ args.path[1].hostname # args.path[2].hostname
    /\ ~Len(args.path[2].hostname) >= 2
    /\ returned.value.hostname = args.path[2].hostname

IsSubdomainOf(host, parent) ==
    \E n \in 1..(Len(host) - 1) : parent = SubSeq(host, n + 1, Len(host))
PortAgrees == Deepest.port = "" \/ Deepest.port = args.currentHost.port

\* C24: inCurrentHost is true exactly when the matched hostname is the current
\* one, or has a dot and one of the two is a subdomain of the other, and any
\* port of the matched host is the port of the current origin.
C24_EitherDirection ==
    (args.fn = "prepareLogin" /\ Called) =>
        (returned.value.inCurrentHost <=>
            /\ AcceptedAt # {}
            /\ \/ Deepest.hostname = args.currentHost.hostname
               \/ /\ Len(Deepest.hostname) >= 2
                  /\ \/ IsSubdomainOf(args.currentHost.hostname, Deepest.hostname)
                     \/ IsSubdomainOf(Deepest.hostname, args.currentHost.hostname)
            /\ PortAgrees)

\* C24, amended: inCurrentHost is true exactly when the matched hostname is the
\* current one, or has a dot and the current hostname is a subdomain of it,
\* and any port of the matched host is the port of the current origin.
C24_CurrentBelowMatched ==
    (args.fn = "prepareLogin" /\ Called) =>
        (returned.value.inCurrentHost <=>
            /\ AcceptedAt # {}
            /\ \/ Deepest.hostname = args.currentHost.hostname
               \/ /\ Len(Deepest.hostname) >= 2
                  /\ IsSubdomainOf(args.currentHost.hostname, Deepest.hostname)
            /\ PortAgrees)

\* the current host lies below the matched one and the ports agree
C24_Witness ==
    /\ args.fn = "prepareLogin" /\ Called
    /\ returned.value.inCurrentHost
    /\ AcceptedAt # {}
    /\ Deepest.hostname # args.currentHost.hostname
    /\ Deepest.port = "8080"

\* ------------------------------------------------------- filterSortLogins
Ranking == args.fn = "filterSortLogins" /\ Called
Out == returned.value.out
NoQuery == \A i \in DOMAIN args.searchQuery : args.searchQuery[i] = " "
Ids(s) == {s[i].index : i \in DOMAIN s}
Used == {i \in DOMAIN args.logins : args.logins[i].recent.count # 0}
InHost == {i \in DOMAIN args.logins : args.logins[i].inCurrentHost}
Unchanged(s) == \A i \in DOMAIN s : s[i] = args.logins[s[i].index]
EachOnce(s) == \A i, j \in DOMAIN s : s[i].index = s[j].index => i = j

\* C25: with currentDomainOnly and no query the result holds exactly the
\* candidates with a use count or in the current host, each once.
C25_WorkingSet ==
    (Ranking /\ args.currentDomainOnly /\ NoQuery) =>
        (Ids(Out) = Used \cup InHost /\ EachOnce(Out) /\ Unchanged(Out))

\* one candidate is dropped, one is kept for its use count and one for its host
C25_Witness ==
    /\ Ranking /\ args.currentDomainOnly /\ NoQuery
    /\ Len(args.logins) = 3
    /\ Cardinality(Used \cup InHost) = 2
    /\ Used # {} /\ InHost \ Used # {}
    /\ Len(Out) = 2

SameRank(x, y) == x.recent.count = y.recent.count /\ Dots(x.login) = Dots(y.login)
NameBelow(x, y) == x.login # y.login /\ ComesBefore(x.login, y.login)
\* the candidate that currentDomainOnly puts first: the most recently used one
LatestUse == CHOOSE w \in {args.logins[i].recent.when : i \in Used} :
                 \A i \in Used : args.logins[i].recent.when <= w
IsMostRecent(x) ==
    /\ args.currentDomainOnly
    /\ x.index \in Used
    /\ x.recent.when = LatestUse
    /\ \A i \in Used : args.logins[i].recent.when = LatestUse => x.index <= i

\* C26: without a query, of two candidates with the same use count and the
\* same number of dots the one with the smaller login name comes first.
C26_SmallerNameFirst ==
    (Ranking /\ NoQuery) =>
        \A i, j \in DOMAIN Out :
            (SameRank(Out[i], Out[j]) /\ NameBelow(Out[i], Out[j])) => i < j

\* C26, amended: the same, unless the other candidate is the most recently
\* used one under currentDomainOnly, which comes first.
C26_SmallerNameFirstButMostRecent ==
    (Ranking /\ NoQuery) =>
        \A i, j \in DOMAIN Out :
            (SameRank(Out[i], Out[j]) /\ NameBelow(Out[i], Out[j]) /\ ~IsMostRecent(Out[j])) => i < j

\* two candidates of the same rank, neither the most recent, change places
C26_Witness ==
    /\ Ranking /\ NoQuery
    /\ \E i, j \in DOMAIN Out :
        /\ i < j /\ Out[i].index > Out[j].index
        /\ SameRank(Out[i], Out[j]) /\ NameBelow(Out[i], Out[j])
        /\ ~IsMostRecent(Out[i]) /\ Out[i].recent.count > 0

\* C27: ranking the result again, with the same query and the same flag,
\* returns the same candidates in the same order.
C27_Idempotent == returned.status = "rerun" => returned.value.again = returned.value.out

MostRecentFirst == Out # <<>> /\ Out[1].index \in Used /\ Out[1].recent.when = LatestUse
RestByCount(from) == \A i, j \in from..Len(Out) : i < j => Out[i].recent.count >= Out[j].recent.count

\* C28: without a query, when a candidate has a use count, the first of the
\* result is the most recently used one and the others follow by falling count.
C28_MostRecentFirst ==
    (Ranking /\ NoQuery /\ Used # {}) => (MostRecentFirst /\ RestByCount(2))

\* C28, amended: so it is under currentDomainOnly; without it the whole
\* result is in the order of falling count.
C28_MostRecentFirstInDomainMode ==
    (Ranking /\ NoQuery) =>
        IF args.currentDomainOnly THEN Used # {} => (MostRecentFirst /\ RestByCount(2))
        ELSE RestByCount(1)

\* the most recent candidate stands before one used more often
C28_Witness ==
    /\ Ranking /\ NoQuery /\ args.currentDomainOnly
    /\ Len(Out) = 3
    /\ Out[1].recent.count < Out[2].recent.count
    /\ Out[2].recent.count > Out[3].recent.count

QueryWords == Split(trim(args.searchQuery), <<>>)
LeadingSpace == args.searchQuery # <<>> /\ Head(args.searchQuery) = " "
Ranked == filterSortLogins(args.logins, <<>>, args.currentDomainOnly)
Holds(c, word) ==
    \E i \in 1..Len(c.login) : /\ i + Len(word) - 1 <= Len(c.login)
                               /\ \A k \in 1..Len(word) : Lower(c.login[i + k - 1]) = Lower(word[k])
HoldsFrom(c, first) == \A k \in first..Len(QueryWords) : Holds(c, QueryWords[k])

\* C29: a query with a leading space keeps, in the order of the ranking, the
\* candidates whose login holds every word of the query, case ignored; of any
\* other query only the words after the first are such filters.
C29_SubstringFilters ==
    Ranking =>
        IF LeadingSpace THEN Out = SelectSeq(Ranked, LAMBDA c : HoldsFrom(c, 1))
        ELSE QueryWords # <<>> =>
                 Ids(Out) = {c.index : c \in {Ranked[i] : i \in {k \in DOMAIN Ranked :
                                 HoldsFrom(Ranked[k], 2) /\ FuzzyHit(QueryWords[1], Ranked[k])}}}

\* two words, a login written with a capital letter, and a candidate dropped
C29_Witness ==
    /\ Ranking /\ LeadingSpace
    /\ Len(QueryWords) = 2
    /\ Len(Out) >= 1 /\ Len(Out) < Len(Ranked)
    /\ \E i \in DOMAIN Out : \E k \in DOMAIN Out[i].login : Out[i].login[k] = "C"

\* --------------------------------------------- updateMatchingPasswordsCount
\* the calls of updateMatchingPasswordsCount run between the awaits of one
\* another; updates[u].at is the await a call stands at

badgeFrame == <<storage, now, pc, settings, login, fields, injectedAllFrames, allFrames, allowForeign,
                allowNoSecret, filledFields, injections, attempts, asked, focus, error, response,
                lastAction, candidate, usageLog, hostCalls, currentAuthRequest, challenges,
                clearAuthRequest, injection, credential, parseOut, args, returned, delivery, popup, flows, clipboard>>

At(u, place) == [updates EXCEPT ![u].at = place]

\* badgeCache = {files, settings, expires: Date.now() + CACHE_TTL_MS, isRefreshing: false}
Refreshed == [isRefreshing |-> FALSE, expired |-> FALSE, filled |-> TRUE]

\* catch (e) { badgeCache.isRefreshing = false; }
Caught == [badgeCache EXCEPT !.isRefreshing = FALSE]

\* the call up to its first await
updateMatchingPasswordsCount(u, caller, forceRefresh) ==
    /\ IF badgeCache.isRefreshing
       THEN /\ updates' = [updates EXCEPT ![u] = [at |-> "done", caller |-> caller, forceRefresh |-> forceRefresh]]
            /\ UNCHANGED badgeCache
       ELSE IF forceRefresh \/ badgeCache.expired
       THEN /\ badgeCache' = [badgeCache EXCEPT !.isRefreshing = TRUE]
            /\ updates' = [updates EXCEPT ![u] = [at |-> "getFullSettings", caller |-> caller, forceRefresh |-> forceRefresh]]
       ELSE /\ updates' = [updates EXCEPT ![u] = [at |-> "tabs.get", caller |-> caller, forceRefresh |-> forceRefresh]]
            /\ UNCHANGED badgeCache
    /\ UNCHANGED badgeFrame

\* chrome.tabs.onUpdated
TabUpdated ==
    \E u \in Updates :
        /\ updates[u].at = "none"
        /\ updateMatchingPasswordsCount(u, "tabs.onUpdated", FALSE)

\* saveRecent, for a login used for the first time
SaveRecentUpdates ==
    \E u \in Updates :
        /\ updates[u].at = "none"
        /\ updateMatchingPasswordsCount(u, "saveRecent", TRUE)

\* saveSettings
SaveSettingsUpdates ==
    \E u \in Updates :
        /\ updates[u].at = "none"
        /\ updateMatchingPasswordsCount(u, "saveSettings", TRUE)

\* await getFullSettings() returns; with hideBadge the list is not asked for
SettingsLoaded ==
    \E u \in Updates, hideBadge \in BOOLEAN :
        /\ updates[u].at = "getFullSettings"
        /\ IF hideBadge
           THEN /\ badgeCache' = Refreshed
                /\ updates' = At(u, "tabs.get")
           ELSE /\ updates' = At(u, "list")
                /\ UNCHANGED badgeCache
        /\ UNCHANGED badgeFrame

\* await hostAction(settings, "list") returns
ListAnswered ==
    \E u \in Updates, ok \in BOOLEAN :
        /\ updates[u].at = "list"
        /\ IF ok
           THEN /\ badgeCache' = Refreshed
                /\ updates' = At(u, "tabs.get")
           ELSE /\ badgeCache' = Caught
                /\ updates' = At(u, "done")
        /\ UNCHANGED badgeFrame

\* await chrome.tabs.get(tabId) returns and the badge text is set, or the
\* tab is gone
TabAnswered ==
    \E u \in Updates, ok \in BOOLEAN :
        /\ updates[u].at = "tabs.get"
        /\ badgeCache' = IF ok THEN badgeCache ELSE Caught
        /\ updates' = At(u, "done")
        /\ UNCHANGED badgeFrame

\* Date.now() > badgeCache.expires
CacheExpires ==
    /\ ~badgeCache.expired
    /\ badgeCache' = [badgeCache EXCEPT !.expired = TRUE]
    /\ UNCHANGED <<updates, badgeFrame>>

NextBadge ==
    \/ TabUpdated
    \/ SaveRecentUpdates
    \/ SaveSettingsUpdates
    \/ SettingsLoaded
    \/ ListAnswered
    \/ TabAnswered
    \/ CacheExpires

SpecBadge == Init /\ [][NextBadge]_vars

Refreshing == {u \in Updates : updates[u].at \in {"getFullSettings", "list"}}

\* C30: at most one call of updateMatchingPasswordsCount is between setting
\* badgeCache.isRefreshing and the end of its settings load and list call.
C30_SingleRefresh == Cardinality(Refreshing) <= 1

\* ------------------------------------- receiveMessage, handleMessage: routing
\* One message from its arrival to the return of its handler; delivery.at is
\* the await the handler stands at, delivery.responses the sendResponse calls.

deliveryFrame == <<storage, now, pc, settings, login, fields, injectedAllFrames, allFrames, allowForeign,
                   allowNoSecret, filledFields, injections, attempts, asked, focus, error, response,
                   lastAction, candidate, usageLog, hostCalls, currentAuthRequest, challenges,
                   clearAuthRequest, injection, credential, parseOut, args, returned, badgeCache,
                   updates, popup, flows, clipboard>>

\* chrome.runtime.id and the id of another extension
RuntimeId == "browserpass"
Senders == {RuntimeId, "other"}

\* the cases of the switch in handleMessage; "unknown" is an action of no case,
\* "missing" a message without an action
RoutedActions == {"getSettings", "saveSettings", "listFiles", "listDirs", "add", "save", "delete",
                  "copyPassword", "copyUsername", "copyOTP", "getDetails", "launch", "launchInNewTab",
                  "fill", "clearUsageData"}
MessageActions == RoutedActions \cup {"unknown", "missing"}

\* the actions whose message carries message.login
LoginActions == {"add", "save", "delete", "copyPassword", "copyUsername", "copyOTP", "getDetails",
                 "launch", "launchInNewTab", "fill"}

\* the cases that answer without an await
ImmediateActions == {"getSettings", "getDetails", "unknown"}

\* the cases that call the host in their try block
HostActions == {"saveSettings", "listFiles", "listDirs", "add", "save", "delete"}

\* a slip: every sender is taken for the extension
IsForeign_Never(sender) == FALSE

\* if (sender.id !== chrome.runtime.id)
IsForeign(sender) == sender # RuntimeId

\* sendResponse(...)
Respond(d, status) == [d EXCEPT !.responses = Append(@, status)]

\* typeof message.login !== "undefined" && message.action != "add"
FetchesLogin(m) == m.action \in LoginActions /\ m.action # "add"

\* handleMessage up to its first await
handleMessage(d) ==
    IF d.message.action = "missing" THEN [Respond(d, "error") EXCEPT !.at = "returned"]
    ELSE IF FetchesLogin(d.message) THEN [d EXCEPT !.at = "parseFields"]
    ELSE [d EXCEPT !.at = "route"]

\* chrome.runtime.onMessage: receiveMessage up to its first await
ReceiveMessage ==
    /\ delivery.at = "none"
    /\ \E sender \in Senders, action \in MessageActions, otp \in BOOLEAN, enableOTP \in BOOLEAN,
          auth \in BOOLEAN :
        LET m == [action |-> action, otp |-> action \in LoginActions /\ otp, enableOTP |-> enableOTP,
                  authRequested |-> action = "fill" /\ auth] IN
        delivery' = [NoDelivery EXCEPT !.sender = sender, !.message = m,
                                       !.at = IF IsForeign(sender) THEN "returned" ELSE "getFullSettings"]
    /\ UNCHANGED deliveryFrame

\* await getFullSettings() in receiveMessage: it resolves and handleMessage is
\* called, or it rejects and the error is answered
SettingsReturned ==
    /\ delivery.at = "getFullSettings"
    /\ \E ok \in BOOLEAN :
        LET d == [delivery EXCEPT !.loads = @ + 1, !.calls = @ + 1] IN
        delivery' = IF ok THEN handleMessage(d) ELSE [Respond(d, "error") EXCEPT !.at = "returned"]
    /\ UNCHANGED deliveryFrame

\* await parseFields(settings, message.login)
ParseFieldsReturned ==
    /\ delivery.at = "parseFields"
    /\ \E ok \in BOOLEAN :
        LET d == [delivery EXCEPT !.calls = @ + 1] IN
        delivery' = IF ok THEN [d EXCEPT !.at = "route"] ELSE [Respond(d, "error") EXCEPT !.at = "returned"]
    /\ UNCHANGED deliveryFrame

\* the cases getSettings, getDetails and default, and copyOTP with OTP disabled
RouteImmediate ==
    /\ delivery.at = "route"
    /\ \/ delivery.message.action \in ImmediateActions
       \/ delivery.message.action = "copyOTP" /\ ~delivery.message.enableOTP
    /\ delivery' = [Respond(delivery, IF delivery.message.action \in {"getSettings", "getDetails"} THEN "ok" ELSE "error")
                        EXCEPT !.at = "returned"]
    /\ UNCHANGED deliveryFrame

\* the cases of one try block with one sendResponse at its end and one in its
\* catch: the host calls, the copies, the launches, clearUsageData, and fill
\* under settings.authRequested
RouteTry ==
    /\ delivery.at = "route"
    /\ \/ delivery.message.action \in RoutedActions \ (ImmediateActions \cup {"copyOTP", "fill"})
       \/ delivery.message.action = "copyOTP" /\ delivery.message.enableOTP
       \/ delivery.message.action = "fill" /\ delivery.message.authRequested
    /\ \E ok \in BOOLEAN :
        LET d == IF delivery.message.action \in HostActions THEN [delivery EXCEPT !.calls = @ + 1] ELSE delivery IN
        delivery' = [Respond(d, IF ok THEN "ok" ELSE "error") EXCEPT !.at = "returned"]
    /\ UNCHANGED deliveryFrame

\* case "fill": fillFields and saveRecent, sendResponse({status: "ok"}), and
\* then the condition of the OTP copy
RouteFill ==
    /\ delivery.at = "route"
    /\ delivery.message.action = "fill" /\ ~delivery.message.authRequested
    /\ \E ok \in BOOLEAN :
        delivery' = IF ~ok THEN [Respond(delivery, "error") EXCEPT !.at = "returned"]
                    ELSE IF delivery.message.enableOTP /\ delivery.message.otp
                    THEN [Respond(delivery, "ok") EXCEPT !.at = "copyToClipboard"]
                    ELSE [Respond(delivery, "ok") EXCEPT !.at = "returned"]
    /\ UNCHANGED deliveryFrame

\* case "fill": await copyToClipboard(helpers.makeTOTP(...)) after the answer;
\* an error goes to the catch of the case, which answers
CopyAfterFill ==
    /\ delivery.at = "copyToClipboard"
    /\ \E ok \in BOOLEAN :
        delivery' = IF ok THEN [delivery EXCEPT !.at = "returned"]
                    ELSE [Respond(delivery, "error") EXCEPT !.at = "returned"]
    /\ UNCHANGED deliveryFrame

\* the next message
MessageDone ==
    /\ delivery.at = "returned"
    /\ delivery' = NoDelivery
    /\ UNCHANGED deliveryFrame

NextMessage ==
    \/ ReceiveMessage
    \/ SettingsReturned
    \/ ParseFieldsReturned
    \/ RouteImmediate
    \/ RouteTry
    \/ RouteFill
    \/ CopyAfterFill
    \/ MessageDone

SpecMessage == Init /\ [][NextMessage]_vars

\* C31: when the handler of a message of the extension has returned,
\* sendResponse has been called exactly once.
C31_OneResponse ==
    (delivery.at = "returned" /\ delivery.sender = RuntimeId) => Len(delivery.responses) = 1

\* C32: a message of another sender leaves everything as it was: no settings
\* load, no call of the host, no change of state, no response.
C32_ForeignIgnored ==
    [][(delivery.at = "none" /\ delivery'.at # "none" /\ delivery'.sender # RuntimeId) =>
            /\ delivery'.at = "returned"
            /\ delivery'.responses = <<>> /\ delivery'.loads = 0 /\ delivery'.calls = 0
            /\ UNCHANGED deliveryFrame]_vars

\* a message of another extension has been received and dropped
C32_Witness ==
    /\ delivery.at = "returned"
    /\ delivery.sender = "other"
    /\ delivery.message.action = "fill"

\* ------------------------------------------------- withLogin in the popup
\* One action of the user on a login of the popup; popup.at is "dialog" while
\* the warning is shown and "sendMessage" while the answer is awaited.

popupFrame == <<storage, now, pc, settings, login, fields, injectedAllFrames, allFrames, allowForeign,
                allowNoSecret, filledFields, injections, attempts, asked, focus, error, response,
                lastAction, candidate, usageLog, hostCalls, currentAuthRequest, challenges,
                clearAuthRequest, injection, credential, parseOut, args, returned, badgeCache,
                updates, delivery, flows, clipboard>>

\* the actions of the popup on a login
LoginCommands == {"fill", "launch", "launchInNewTab", "copyPassword", "copyUsername", "copyOTP", "getDetails"}

\* helpers.parseAuthUrl(this.settings?.tab?.url ?? null): null, or the url of
\* the challenge, of which the scheme is kept as it is written
AuthUrls == {"null", "http:", "https:", "HTTPS:", "ftp:"}

\* url?.match(/^https:/i)
MatchesHttps(url) == url \in {"https:", "HTTPS:"}

\* a slip: the warning is never shown
AskToProceed_Never(action, requested, confirmedAlready, url) == FALSE

\* const askToProceed = action === "fill" && this.settings?.authRequested &&
\*     !params?.confirmedAlready && !url?.match(/^https:/i)
AskToProceed(action, requested, confirmedAlready, url) ==
    action = "fill" /\ requested /\ ~confirmedAlready /\ ~MatchesHttps(url)

\* withLogin up to its return or its await: the warning is opened, or the
\* message is sent to the background script
withLogin(p) ==
    IF AskToProceed(p.action, p.authRequested, p.confirmedAlready, p.url)
    THEN [p EXCEPT !.at = "dialog"]
    ELSE [p EXCEPT !.at = "sendMessage", !.sent = @ + 1]

\* the user picks an action: login.doAction(action), with params = {}
WithLogin ==
    /\ popup.at = "none"
    /\ \E action \in LoginCommands, requested \in BOOLEAN, url \in AuthUrls :
        popup' = withLogin([NoPopup EXCEPT !.action = action, !.authRequested = requested, !.url = url])
    /\ UNCHANGED popupFrame

\* the user proceeds: params.confirmedAlready = true; that.doAction(action, params)
DialogProceeds ==
    /\ popup.at = "dialog"
    /\ popup' = withLogin([popup EXCEPT !.confirmedAlready = TRUE, !.proceeded = TRUE])
    /\ UNCHANGED popupFrame

\* the user closes the warning: the action is abandoned
DialogCancelled ==
    /\ popup.at = "dialog"
    /\ popup' = [popup EXCEPT !.at = "done"]
    /\ UNCHANGED popupFrame

\* await chrome.runtime.sendMessage(...) returns: the window is closed, or the
\* error is shown
MessageAnswered ==
    /\ popup.at = "sendMessage"
    /\ popup' = [popup EXCEPT !.at = "done"]
    /\ UNCHANGED popupFrame

\* the popup is opened again
PopupReopened ==
    /\ popup.at = "done"
    /\ popup' = NoPopup
    /\ UNCHANGED popupFrame

NextPopup ==
    \/ WithLogin
    \/ DialogProceeds
    \/ DialogCancelled
    \/ MessageAnswered
    \/ PopupReopened

SpecPopup == Init /\ [][NextPopup]_vars

Insecure == popup.action = "fill" /\ popup.authRequested /\ popup.url \notin {"https:", "HTTPS:"}

Arrives(n) == challenges[n].status = "none" /\ challenges'[n].status # "none"
Invoked(n) == challenges'[n].invocations > challenges[n].invocations

\* C34: the resolver of a challenge is invoked at most once; when the resolver
\* of the current request is invoked, no request is current afterwards, and a
\* request that is current has not been answered; a challenge that arrives
\* while a request is current is answered at once with an empty response and
\* the current request stays as it is.
C34_ResolvedOnce ==
    [][/\ \A n \in Challenges : challenges'[n].invocations <= 1
       /\ \A n \in Challenges : (Invoked(n) /\ ~Arrives(n)) => (currentAuthRequest = n /\ currentAuthRequest' = 0)
       /\ currentAuthRequest' # 0 => challenges'[currentAuthRequest'].resolved = "pending"
       /\ \A n \in Challenges :
            (Arrives(n) /\ currentAuthRequest # 0) =>
                /\ Invoked(n) /\ challenges'[n].resolved = "empty"
                /\ currentAuthRequest' = currentAuthRequest
                /\ challenges'[currentAuthRequest] = challenges[currentAuthRequest]]_vars

\* one challenge was answered empty on arrival, the request that was current
\* then has since been answered by a fill or by the alarm
C34_Witness ==
    /\ currentAuthRequest = 0
    /\ \E n, m \in Challenges :
        /\ challenges[n].status = "dismissed" /\ challenges[n].invocations = 1
        /\ challenges[m].status = "registered" /\ challenges[m].invocations = 1
        /\ challenges[m].resolved \in {"credentials", "cancel"}
        /\ challenges[m].window = "closed"

AuthFillAnswers == pc = "parseFields" /\ pc' = "responded" /\ response'.status = "ok"
UsageRecorded ==
    /\ storage'["recent"].present
    /\ storage'["recent"].value[<<settings.origin, login.login>>] =
           [present |-> TRUE, rec |-> UpdatedRecent(login.recent, now)]
NothingSentToPage == injections' = <<>> /\ attempts' = <<>> /\ focus' = <<>>

\* C35: a fill under settings.authRequested passes the login and the secret
\* of the entry to the resolver of the pending challenge, records the use and
\* answers ok; no script is injected and no instruction goes to the page.
C35_AuthFillResolves ==
    [][AuthFillAnswers =>
            /\ \E c \in Challenges : Invoked(c) /\ challenges'[c].resolved = "credentials"
            /\ UsageRecorded
            /\ NothingSentToPage]_vars

FillAnsweredError == lastAction = "fill" /\ pc = "responded" /\ response.status = "error"
StoredUsageMap == getFullSettings(storage, ConfigureOk([autoSubmit |-> Undefined]), "o1").recent

\* C36: when a fill is answered with an error (the fetch or the parse of the
\* entry failed, the top-frame injection failed, or no form could be filled)
\* the usage record of the login is the one the message carried and the stored
\* usage map is the one the handler loaded: nothing was recorded.
C36_FailedFillKeepsUsage ==
    FillAnsweredError =>
        /\ login.recent = candidate
        /\ settings.recent = StoredUsageMap

C36_Witness ==
    /\ FillAnsweredError
    /\ response.message = ErrNoForms(fields)
    /\ injections # <<>>
    /\ candidate.count > 0
    /\ storage["recent"].present

\* ------------------------------------------ two handlers recording a use
\* receiveMessage awaits getFullSettings and starts handleMessage; the handler
\* awaits the host (parseFields) before saveRecent, and the listener takes the
\* next message at any of these awaits. flows.stored is the value under the
\* storage key "recent"; flows.flow[f].at is the await handler f stands at,
\* .recent its settings.recent and .login the login.recent of its message.

flowsFrame == <<storage, pc, settings, login, fields, injectedAllFrames, allFrames, allowForeign,
                allowNoSecret, filledFields, injections, attempts, asked, focus, error, response,
                candidate, usageLog, hostCalls, currentAuthRequest, challenges,
                clearAuthRequest, injection, credential, parseOut, args, returned, badgeCache,
                updates, delivery, popup, clipboard>>

FlowSettings(f) == [recent |-> flows.flow[f].recent, origin |-> "o1"]

\* receiveMessage: settings = await getFullSettings(); the popup prepared the
\* login of the message from the same stored map
FlowLoadsSettings ==
    /\ \E f \in Flows :
        /\ flows.flow[f].at = "none"
        /\ flows' = [flows EXCEPT !.flow[f] =
               [at |-> "loaded",
                recent |-> flows.stored,
                login |-> RecentOf([recent |-> flows.stored, origin |-> "o1"], FlowLogin(f))]]
    /\ lastAction' = "load"
    /\ UNCHANGED now
    /\ UNCHANGED flowsFrame

\* saveRecent(settings, login): login.recent is updated, put into the
\* settings.recent of the handler, and that map is written under "recent"
FlowSavesRecent ==
    /\ \E f \in Flows :
        /\ flows.flow[f].at = "loaded"
        /\ LET lg == [login |-> FlowLogin(f), recent |-> flows.flow[f].login]
               map == RecentAfterUse(FlowSettings(f), lg, now) IN
           flows' = [flows EXCEPT !.stored = map,
                                  !.flow[f] = [at |-> "done", recent |-> map,
                                               login |-> UpdatedRecent(lg.recent, now)]]
    /\ lastAction' = "saveRecent"
    /\ UNCHANGED now
    /\ UNCHANGED flowsFrame

\* both handlers have returned
FlowsReturn ==
    /\ \A f \in Flows : flows.flow[f].at = "done"
    /\ flows' = [flows EXCEPT !.flow = [f \in Flows |-> NoFlow]]
    /\ lastAction' = "idle"
    /\ UNCHANGED now
    /\ UNCHANGED flowsFrame

NextFlows ==
    \/ FlowLoadsSettings
    \/ FlowSavesRecent
    \/ FlowsReturn
    \/ Tick

SpecFlows == Init /\ [][NextFlows]_vars

BothFlowsFinished == \A f \in Flows : flows.flow[f].at = "done"

\* C37: whenever two handlers that each loaded the settings and recorded the
\* use of a credential of their own have both finished, in whatever order
\* their steps were taken, the stored usage map holds the updated record of
\* both credentials.
C37_BothUsesStored ==
    BothFlowsFinished =>
        \A f \in Flows :
            flows.stored[<<"o1", FlowLogin(f)>>] = [present |-> TRUE, rec |-> flows.flow[f].login]

\* ------------------------------------------------- the number on the badge
\* a slip: only the logins of the current host are counted
matchedPasswordsCount_InHostOnly(logins) == Len(SelectSeq(logins, LAMBDA c : c.inCurrentHost))

\* logins.reduce((acc, login) => acc + (login.recent.count || login.inCurrentHost ? 1 : 0), 0)
matchedPasswordsCount(logins) == Len(SelectSeq(logins, LAMBDA c : c.recent.count # 0 \/ c.inCurrentHost))

\* chrome.action.setBadgeText({text: "" + (matchedPasswordsCount || "")}): the
\* number, or no text when it is 0
BadgeText(logins) ==
    [shown |-> matchedPasswordsCount(logins) # 0, number |-> matchedPasswordsCount(logins)]

\* C38: for the same prepared logins, the number on the badge is the number
\* of candidates filterSortLogins returns with an empty query and
\* currentDomainOnly set; the badge has no text exactly when that list is empty.
C38_BadgeCountsMatchingList ==
    (Ranking /\ args.currentDomainOnly /\ args.searchQuery = <<>>) =>
        /\ BadgeText(args.logins).shown => BadgeText(args.logins).number = Len(Out)
        /\ ~BadgeText(args.logins).shown => Out = <<>>

\* a used login of another host and an unused one of the current host are
\* counted, a third login is not
C38_Witness ==
    /\ Ranking /\ args.currentDomainOnly /\ args.searchQuery = <<>>
    /\ Len(args.logins) = 3
    /\ BadgeText(args.logins) = [shown |-> TRUE, number |-> 2]
    /\ \E i \in DOMAIN args.logins : args.logins[i].recent.count # 0 /\ ~args.logins[i].inCurrentHost
    /\ \E i \in DOMAIN args.logins : args.logins[i].recent.count = 0 /\ args.logins[i].inCurrentHost

SaveSettingsHandled == pc = "idle" /\ lastAction' = "saveSettings"
HostAccepted == \E i \in DOMAIN hostCalls' : hostCalls'[i] = Call("configure", TRUE, "handler")
HostRejected == \E i \in DOMAIN hostCalls' : hostCalls'[i] = Call("configure", FALSE, "handler")

\* C39: a saveSettings message whose configure call the host answers with a
\* status other than ok is answered with an error and leaves every key of the
\* storage as it was; storage changes only when the host accepted the settings.
C39_SavedOnlyIfAccepted ==
    [][SaveSettingsHandled =>
            /\ HostRejected => (storage' = storage /\ response'.status = "error")
            /\ storage' # storage => (HostAccepted /\ response'.status = "ok")]_vars

\* the host rejected settings that differ from the stored ones, after
\* getFullSettings had its own configure call answered ok
C39_Witness ==
    /\ lastAction = "saveSettings"
    /\ response = Err(<<"configure", <<>> >>)
    /\ hostCalls = <<Call("configure", TRUE, "getFullSettings"), Call("configure", FALSE, "handler")>>
    /\ storage["autoSubmit"].present

\* ------------------------------------------------------------ the clipboard
\* The handlers copy a secret, a login or a one-time code with clear set; the
\* user may put another text on the clipboard; the clearClipboard alarm fires
\* a minute after the last copy and its listener awaits readFromClipboard
\* before it compares.

clipboardFrame == <<storage, now, pc, settings, login, fields, injectedAllFrames, allFrames, allowForeign,
                    allowNoSecret, filledFields, injections, attempts, asked, focus, error, response,
                    lastAction, candidate, usageLog, hostCalls, currentAuthRequest, challenges,
                    clearAuthRequest, injection, credential, parseOut, args, returned, badgeCache,
                    updates, delivery, popup, flows>>

CopiedTexts == {"login", "secret", "otp"}
OtherTexts == {"other"}

\* copyToClipboard(text, clear): the write, and under clear the assignment of
\* lastCopiedText and chrome.alarms.create("clearClipboard"), which replaces
\* a pending alarm of that name
copyToClipboard(c, text, clear) ==
    [c EXCEPT !.content = text,
              !.lastCopiedText = IF clear THEN text ELSE @,
              !.alarm = IF clear THEN TRUE ELSE @,
              !.copied = IF clear THEN text ELSE @]

\* readFromClipboard: the content, or undefined when the offscreen document
\* answers with a status other than ok
readFromClipboard(c, ok) == IF ok THEN c.content ELSE Undefined

\* handleMessage, actions copyPassword, copyUsername, copyOTP and fill with a
\* one-time code: await copyToClipboard(text)
CopyToClipboard ==
    /\ \E text \in CopiedTexts : clipboard' = copyToClipboard(clipboard, text, TRUE)
    /\ UNCHANGED clipboardFrame

\* the user copies a text in another program
UserCopies ==
    /\ \E text \in OtherTexts :
        /\ clipboard.content # text
        /\ clipboard' = [clipboard EXCEPT !.content = text]
    /\ UNCHANGED clipboardFrame

\* chrome.alarms.onAlarm, alarm.name === "clearClipboard": the listener starts
\* and awaits readFromClipboard()
AlarmFires ==
    /\ clipboard.alarm
    /\ clipboard.at = "none"
    /\ clipboard' = [clipboard EXCEPT !.alarm = FALSE, !.at = "reading"]
    /\ UNCHANGED clipboardFrame

\* the offscreen document reads the clipboard and answers
ClipboardRead ==
    /\ clipboard.at = "reading"
    /\ \E ok \in BOOLEAN :
        clipboard' = [clipboard EXCEPT !.read = readFromClipboard(clipboard, ok), !.at = "compare"]
    /\ UNCHANGED clipboardFrame

\* if ((await readFromClipboard()) === lastCopiedText) copyToClipboard("", false);
\* lastCopiedText = null
AlarmCompares ==
    /\ clipboard.at = "compare"
    /\ LET c == IF clipboard.read = clipboard.lastCopiedText
                THEN copyToClipboard(clipboard, "", FALSE)
                ELSE clipboard IN
       clipboard' = [c EXCEPT !.lastCopiedText = "null", !.at = "none", !.read = "null"]
    /\ UNCHANGED clipboardFrame

NextClipboard ==
    \/ CopyToClipboard
    \/ UserCopies
    \/ AlarmFires
    \/ ClipboardRead
    \/ AlarmCompares

SpecClipboard == Init /\ [][NextClipboard]_vars

ListenerEnds == clipboard.at = "compare" /\ clipboard'.at = "none"

\* C40: when the listener of the clearClipboard alarm ends, the clipboard has
\* been emptied if and only if its content was the last text copied with
\* clear set, and lastCopiedText is null either way; a copy that comes before
\* the alarm fires makes its text the one the listener compares against.
C40_ClearedIfStillCopied ==
    [][/\ ListenerEnds =>
            /\ clipboard'.content = "" <=> clipboard.content = clipboard.copied
            /\ clipboard'.content # "" => clipboard'.content = clipboard.content
            /\ clipboard'.lastCopiedText = "null"
       /\ (clipboard.at = "none" /\ clipboard'.copied # clipboard.copied) =>
            clipboard'.lastCopiedText = clipboard'.copied]_vars
====
